---------------------------- MODULE Spec2Model ----------------------------
(***************************************************************************)
(* A model of reframe's site configuration object (_SiteConfig in          *)
(* reframe/core/config.py): the original document, the reduced view built  *)
(* by select_subconfig, the active target and the sticky options, with     *)
(* one action per method; of the command line parser that feeds it         *)
(* (reframe/frontend/argparse.py); of the pipeline hooks wrapper           *)
(* (attach_hooks in reframe/core/hooks.py); and of the topology detection  *)
(* (detect_topology in reframe/frontend/autodetect.py).                    *)
(*                                                                         *)
(* Encoding of Python values.  A JSON value is a record [t, v]: t is the   *)
(* Python type ("str", "int", "list", "dict", "none") and v the payload    *)
(* (a TLA+ string, an integer, a sequence of values, a function from key   *)
(* strings to values).  A string that the code splits is kept as a string  *)
(* and split by a table over the strings of the model (Components for      *)
(* ':', SegInt / SegAtName for the segments of a get path).  An option     *)
(* path "a/0/b" is held as its '/'-split, <<"a", "0", "b">>: split never   *)
(* yields a segment with a '/', so the split is one-to-one on path         *)
(* strings, and "" is <<"">>.                                              *)
(***************************************************************************)
EXTENDS Integers, Sequences, FiniteSets, TLC

VARIABLES
    site_config,      \* self._site_config: the original document
    local_config,     \* self._local_config: the reduced view ({} before any selection)
    local_system,     \* self._local_system: the active target, or None
    sticky_options,   \* self._sticky_options: option string -> value
    schema_required,  \* self._schema['required']
    given,            \* the document passed to the constructor (never assigned again)
    pinned,           \* option -> the value of the last add_sticky_option not yet removed
    last,             \* the last call made on the object and how it ended
    option_map,       \* ArgumentParser._option_map, in insertion order
    environ,          \* os.environ: variable name -> text
    namespace,        \* the namespace of the _Namespace parse_args returned
    groups,           \* ArgumentParser._groups: the argument groups, in order
    parser_last,      \* the last call made on the parser or its namespace
    hooks,            \* the registry given to attach_hooks: phase -> hooks, in order
    disabled_hooks,   \* obj._disabled_hooks: names of hooks
    hook_call,        \* the running call of a wrapped pipeline function, or the last one
    topo_parts,       \* rt.system.partitions: processor info, devices, whether local
    topo_files,       \* per partition, its processor.json and devices.json
    topo_options,     \* general/0/remote_detect and _TREAT_WARNINGS_AS_ERRORS
    topo_last         \* the last call of detect_topology

config_vars == <<site_config, local_config, local_system, sticky_options,
                 schema_required, given, pinned, last>>

parser_vars == <<option_map, environ, namespace, groups, parser_last>>

hook_vars == <<hooks, disabled_hooks, hook_call>>

topo_vars == <<topo_parts, topo_files, topo_options, topo_last>>

vars == <<site_config, local_config, local_system, sticky_options,
          schema_required, given, pinned, last, option_map, environ,
          namespace, groups, parser_last, hooks, disabled_hooks, hook_call,
          topo_parts, topo_files, topo_options, topo_last>>

-----------------------------------------------------------------------------
(* Python values *)

PyStr(s)  == [t |-> "str",  v |-> s]
PyInt(n)  == [t |-> "int",  v |-> n]
PyList(q) == [t |-> "list", v |-> q]
PyDict(f) == [t |-> "dict", v |-> f]
PyNone    == [t |-> "none", v |-> "None"]

EmptyDict == PyDict([k \in {} |-> PyNone])

IsDict(x) == x.t = "dict"
IsList(x) == x.t = "list"
IsStr(x)  == x.t = "str"

HasKey(d, k) == k \in DOMAIN d.v

\* The elements of a sequence, as a set.
Range(q) == {q[i] : i \in DOMAIN q}

\* str.split(':') on the scope strings of the model.
Components(s) ==
    CASE s = "sysA:partX" -> <<"sysA", "partX">>
      [] s = "sysA:partY" -> <<"sysA", "partY">>
      [] s = "sysA:nope"  -> <<"sysA", "nope">>
      [] s = "sysB:x"     -> <<"sysB", "x">>
      [] s = "sysB:partX" -> <<"sysB", "partX">>
      [] s = "daint:mc"   -> <<"daint", "mc">>
      [] OTHER            -> <<s>>

\* The characters of the strings a get path can reach, for str[int].
StrChars(s) ==
    CASE s = "sysA"  -> <<"s", "y", "s", "A">>
      [] s = "sysB"  -> <<"s", "y", "s", "B">>
      [] s = "daint" -> <<"d", "a", "i", "n", "t">>
      [] s = "gnu"   -> <<"g", "n", "u">>
      [] s = "intel" -> <<"i", "n", "t", "e", "l">>
      [] s = "mc"    -> <<"m", "c">>
      [] s = "partX" -> <<"p", "a", "r", "t", "X">>
      [] s = "partY" -> <<"p", "a", "r", "t", "Y">>
      [] s = "*"     -> <<"*">>
      [] s = ""      -> <<>>
      [] OTHER       -> <<s>>

-----------------------------------------------------------------------------
(* The schema (reframe/schemas/config.json, read by __init__) *)

\* self._schema['defaults']: stripped option path -> default value.
SchemaDefaults ==
    (<<"environments", "target_systems">> :> PyList(<<PyStr("*")>>)) @@
    (<<"logging", "target_systems">>      :> PyList(<<PyStr("*")>>)) @@
    (<<"general", "target_systems">>      :> PyList(<<PyStr("*")>>)) @@
    (<<"general", "colorize">>            :> PyStr("True")) @@
    (<<"general", "verbose">>             :> PyInt(0)) @@
    (<<"systems", "partitions", "max_jobs">> :> PyInt(8))

\* The 'required' lists a SiteConfig is constructed with.
RequiredChoices ==
    { <<"systems", "environments">>,
      <<"systems", "environments", "logging">> }

\* jsonschema.validate(config, schema), as far as the schema is known: every
\* required section is a key of the configuration.
SchemaValid(config, required) ==
    \A i \in DOMAIN required : HasKey(config, required[i])

-----------------------------------------------------------------------------
(* ScopedDict (reframe.utility), the scope resolution select_subconfig uses *)

\* A pattern applies to a scope when it is "*" or its components are a prefix
\* of the scope's.
ScopeMatches(pattern, scope) ==
    \/ pattern = "*"
    \/ LET p == Components(pattern)
           s == Components(scope)
       IN  Len(p) <= Len(s) /\ SubSeq(s, 1, Len(p)) = p

\* "*" is the least specific pattern; otherwise more components is more specific.
Specificity(pattern) == IF pattern = "*" THEN 0 ELSE Len(Components(pattern))

\* The patterns under which sd holds an entry for key and that apply to scope.
ScopedCandidates(sd, scope, key) ==
    {k[1] : k \in {x \in DOMAIN sd : x[2] = key /\ ScopeMatches(x[1], scope)}}

\* scoped[f'{pattern}:{key}'] = obj: a later entry replaces an earlier one.
ScopedSet(sd, pattern, key, obj) == (<<pattern, key>> :> obj) @@ sd

\* f'{scope}:{key}' in scoped
ScopedHas(sd, scope, key) == ScopedCandidates(sd, scope, key) # {}

\* scoped[f'{scope}:{key}']: the entry of the most specific applying pattern.
ScopedGet(sd, scope, key) ==
    LET cands == ScopedCandidates(sd, scope, key)
        best  == CHOOSE p \in cands :
                     \A q \in cands : Specificity(q) <= Specificity(p)
    IN  sd[<<best, key>>]

EmptyScoped == [k \in {} |-> PyNone]

-----------------------------------------------------------------------------
(* select_subconfig, step by step *)

\* system_fullname.split(':', maxsplit=1): the system name.
SystemName(fullname) == Components(fullname)[1]

\* The partition name, or None when the target has no ':'.
PartName(fullname) ==
    IF Len(Components(fullname)) >= 2
    THEN PyStr(Components(fullname)[2])
    ELSE PyNone

\* list(filter(lambda x: x['name'] == name, records))
FilterByName(records, name) ==
    SelectSeq(records, LAMBDA x : x.v["name"] = name)

\* systems[0]['partitions'] = list(filter(...)) when a partition was given.
FilterPartitions(system, part_name) ==
    IF part_name # PyNone
    THEN PyDict([system.v EXCEPT !["partitions"] =
                     PyList(FilterByName(@.v, part_name))])
    ELSE system

\* The systems list of the working copy after the partitions were filtered.
SelectedSystems(doc, fullname) ==
    LET systems == FilterByName(doc.v["systems"].v, PyStr(SystemName(fullname)))
    IN  IF systems = <<>> THEN systems
        ELSE <<FilterPartitions(systems[1], PartName(fullname))>>
                 \o Tail(systems)

\* The working copy as that in-place edit leaves it: the first system named
\* as the target has its partitions filtered, everything else is as it was.
RECURSIVE EditFirstNamed(_, _, _)
EditFirstNamed(systems, name, part_name) ==
    IF systems = <<>> THEN <<>>
    ELSE IF Head(systems).v["name"] = name
         THEN <<FilterPartitions(Head(systems), part_name)>> \o Tail(systems)
         ELSE <<Head(systems)>> \o EditFirstNamed(Tail(systems), name, part_name)

EditedCopy(doc, fullname) ==
    PyDict([doc.v EXCEPT !["systems"] =
        PyList(EditFirstNamed(@.v, PyStr(SystemName(fullname)),
                              PartName(fullname)))])

\* The document self._site_config would refer to had select_subconfig worked
\* on self._site_config itself.
SiteConfigAliased(original, edited) == edited

\* The document self._site_config refers to after select_subconfig worked on
\* `edited`: the work is done on copy.deepcopy(self._site_config), so the
\* original is not the object that was edited.
SiteConfigAfterCopy(original, edited) == original

\* key = obj.get('name', name)
ObjKey(obj, name) ==
    IF HasKey(obj, "name") THEN obj.v["name"].v ELSE name

\* obj.get('target_systems', self._schema['defaults'][f'{name}/target_systems'])
TargetSystems(obj, name) ==
    IF HasKey(obj, "target_systems")
    THEN obj.v["target_systems"]
    ELSE SchemaDefaults[<<name, "target_systems">>]

\* for t in target_systems: scoped_section[f'{t}:{key}'] = obj
RECURSIVE InsertTargets(_, _, _, _)
InsertTargets(sd, targets, key, obj) ==
    IF targets = <<>> THEN sd
    ELSE InsertTargets(ScopedSet(sd, Head(targets).v, key, obj),
                       Tail(targets), key, obj)

\* A first loop that enters the records from the last one to the first.
RECURSIVE BuildScopedBackwards(_, _, _)
BuildScopedBackwards(section, name, sd) ==
    IF section = <<>> THEN sd
    ELSE LET obj == section[Len(section)]
         IN  BuildScopedBackwards(SubSeq(section, 1, Len(section) - 1), name,
                 InsertTargets(sd, TargetSystems(obj, name).v,
                               ObjKey(obj, name), obj))

\* The first loop over a section: every record is entered under each of its
\* target patterns.
RECURSIVE BuildScoped(_, _, _)
BuildScoped(section, name, sd) ==
    IF section = <<>> THEN sd
    ELSE LET obj == Head(section)
         IN  BuildScoped(Tail(section), name,
                 InsertTargets(sd, TargetSystems(obj, name).v,
                               ObjKey(obj, name), obj))

\* A lookup under the system's name alone, whatever partition is named.
LookupUnderSystemName(fullname) == SystemName(fullname)

\* A lookup under the partition's name alone when the target names one.
LookupUnderPartName(fullname) ==
    IF PartName(fullname) # PyNone THEN PartName(fullname).v ELSE fullname

\* The scope a key is looked up under: scoped_section[f"{system_fullname}:{key}"]
LookupScope(fullname) == fullname

\* A second loop without unique_keys: one lookup per record.
RECURSIVE KeepEvery(_, _, _, _, _, _)
KeepEvery(section, name, sd, fullname, unique_keys, kept) ==
    IF section = <<>> THEN kept
    ELSE LET key == ObjKey(Head(section), name)
         IN  KeepEvery(Tail(section), name, sd, fullname, unique_keys,
                 IF ScopedHas(sd, LookupScope(fullname), key)
                 THEN Append(kept, ScopedGet(sd, LookupScope(fullname), key))
                 ELSE kept)

\* The second loop: one lookup per key, in the order the keys first occur.
RECURSIVE KeepUnique(_, _, _, _, _, _)
KeepUnique(section, name, sd, fullname, unique_keys, kept) ==
    IF section = <<>> THEN kept
    ELSE LET key == ObjKey(Head(section), name)
         IN  IF key \in unique_keys
             THEN KeepUnique(Tail(section), name, sd, fullname,
                             unique_keys, kept)
             ELSE KeepUnique(Tail(section), name, sd, fullname,
                     unique_keys \cup {key},
                     IF ScopedHas(sd, LookupScope(fullname), key)
                     THEN Append(kept, ScopedGet(sd, LookupScope(fullname), key))
                     ELSE kept)

ReduceSection(section, name, fullname) ==
    KeepUnique(section, name, BuildScoped(section, name, EmptyScoped),
               fullname, {}, <<>>)

\* self._local_config once the loop over the sections is done: a section is
\* a key only if a record of it was kept.
BuildLocalConfig(doc, systems, fullname) ==
    LET reduced == [n \in DOMAIN doc.v \ {"systems"} |->
                       ReduceSection(doc.v[n].v, n, fullname)]
        names   == {n \in DOMAIN reduced : reduced[n] # <<>>}
    IN  PyDict(("systems" :> PyList(systems)) @@
               [n \in names |-> PyList(reduced[n])])

\* for name in required_sections: the first one that is no key of the view.
RECURSIVE FirstMissing(_, _)
FirstMissing(required, config) ==
    IF required = <<>> THEN PyNone
    ELSE IF ~HasKey(config, Head(required)) THEN PyStr(Head(required))
         ELSE FirstMissing(Tail(required), config)

\* {*itertools.chain(*(p['environs'] for p in systems[0]['partitions']))}
SysEnvirons(system) ==
    UNION { {e.v : e \in Range(p.v["environs"].v)} :
                p \in Range(system.v["partitions"].v) }

\* {e['name'] for e in self._local_config['environments']}
FoundEnvirons(config) ==
    {e.v["name"].v : e \in Range(config.v["environments"].v)}

UndefinedEnvirons(system, config) == SysEnvirons(system) \ FoundEnvirons(config)

-----------------------------------------------------------------------------
(* How a call ends *)

Returned(value) ==
    [status |-> "return", exc |-> "", what |-> "", detail |-> {}, value |-> value]

Raised(exc, what, detail) ==
    [status |-> "raise", exc |-> exc, what |-> what, detail |-> detail,
     value |-> PyNone]

\* A target that is never taken for the active one.
NeverAlreadySelected(ls, fullname) == FALSE

\* self._local_system is not None and self._local_system == system_fullname
AlreadySelected(ls, fullname) == ls # PyNone /\ ls = PyStr(fullname)

\* select_subconfig(system_fullname) on a SiteConfig whose fields are doc, lc
\* and ls: the fields after the call (doc: what self._site_config refers to)
\* and how the call ended.
SelectResult(doc, lc, ls, required, fullname) ==
    IF AlreadySelected(ls, fullname)
    THEN [doc |-> doc, lc |-> lc, ls |-> ls, out |-> Returned(PyNone)]
    ELSE
      LET systems == SelectedSystems(doc, fullname)
          edited  == EditedCopy(doc, fullname)
          after   == SiteConfigAfterCopy(doc, edited)
          built   == BuildLocalConfig(edited, systems, fullname)
          missing == FirstMissing(required, built)
      IN  IF systems = <<>>
          THEN [doc |-> after, lc |-> EmptyDict, ls |-> ls,
                out |-> Raised("ConfigError", "system not found",
                               {SystemName(fullname)})]
          ELSE IF systems[1].v["partitions"].v = <<>>
          THEN [doc |-> after, lc |-> EmptyDict, ls |-> ls,
                out |-> Raised("ConfigError",
                               "system/partition combination not found",
                               {fullname})]
          ELSE IF missing # PyNone
          THEN [doc |-> after, lc |-> built, ls |-> ls,
                out |-> Raised("ConfigError", "section not defined for system",
                               {missing.v})]
          ELSE IF ~HasKey(built, "environments")
          THEN [doc |-> after, lc |-> built, ls |-> ls,
                out |-> Raised("KeyError", "environments", {})]
          ELSE IF UndefinedEnvirons(systems[1], built) # {}
          THEN [doc |-> after, lc |-> built, ls |-> ls,
                out |-> Raised("ConfigError", "environments not defined",
                               UndefinedEnvirons(systems[1], built))]
          ELSE [doc |-> after, lc |-> built, ls |-> PyStr(fullname),
                out |-> Returned(PyNone)]

-----------------------------------------------------------------------------
(* validate *)

\* self._local_config if self._local_config else self._site_config
PickConfig(doc, lc) == IF DOMAIN lc.v # {} THEN lc ELSE doc

\* The inner loop over a system's partitions: the first name seen twice.
RECURSIVE FirstDuplicate(_, _)
FirstDuplicate(records, names) ==
    IF records = <<>> THEN PyNone
    ELSE IF Head(records).v["name"] \in names THEN Head(records).v["name"]
         ELSE FirstDuplicate(Tail(records), names \cup {Head(records).v["name"]})

\* The concatenation of the partitions of the systems.
RECURSIVE AllPartitions(_)
AllPartitions(systems) ==
    IF systems = <<>> THEN <<>>
    ELSE Head(systems).v["partitions"].v \o AllPartitions(Tail(systems))

\* A uniqueness loop with one set of partition names for all the systems.
CheckUniqueAcrossSystems(systems, system_names) ==
    IF FirstDuplicate(systems, system_names) # PyNone
    THEN Raised("ConfigError", "system already defined",
                {FirstDuplicate(systems, system_names).v})
    ELSE IF FirstDuplicate(AllPartitions(systems), {}) # PyNone
    THEN Raised("ConfigError", "partition already defined",
                {FirstDuplicate(AllPartitions(systems), {}).v})
    ELSE Returned(PyNone)

\* The loop over self._site_config['systems'].
RECURSIVE CheckUnique(_, _)
CheckUnique(systems, system_names) ==
    IF systems = <<>> THEN Returned(PyNone)
    ELSE LET system  == Head(systems)
             sysname == system.v["name"]
             dup     == FirstDuplicate(system.v["partitions"].v, {})
         IN  IF sysname \in system_names
             THEN Raised("ConfigError", "system already defined", {sysname.v})
             ELSE IF dup # PyNone
             THEN Raised("ConfigError", "partition already defined",
                         {dup.v, sysname.v})
             ELSE CheckUnique(Tail(systems), system_names \cup {sysname})

ValidateResult(doc, lc, required) ==
    IF ~SchemaValid(PickConfig(doc, lc), required)
    THEN Raised("ConfigError", "could not validate configuration file", {})
    ELSE CheckUnique(doc.v["systems"].v, {})

-----------------------------------------------------------------------------
(* get *)

\* int(opt) succeeds
IsIntSeg(s) == s \in {"0", "1", "7", "-1"}

\* int(opt)
SegInt(s) ==
    CASE s = "0" -> 0 [] s = "1" -> 1 [] s = "7" -> 7 [] s = "-1" -> -1

\* x[0] == '@' (x not the empty string)
IsAtSeg(s) == s \in {"@gnu", "@nope", "@sysA"}

\* d[1:]
SegAtName(s) ==
    CASE s = "@gnu" -> "gnu" [] s = "@nope" -> "nope" [] s = "@sysA" -> "sysA"

\* '/'.join(segments), as the '/'-split of the joined string.
JoinSlash(segments) == IF segments = <<>> THEN <<"">> ELSE segments

\* stripped_opt: the segments that are neither integers nor '@' names.
StrippedOpt(path) ==
    JoinSlash(SelectSeq(path, LAMBDA x : ~IsIntSeg(x) /\ ~IsAtSeg(x)))

\* value[d] for a sequence value and an integer d.
SeqItem(q, i) ==
    IF 0 <= i /\ i < Len(q) THEN [ok |-> TRUE, exc |-> "", value |-> q[i + 1]]
    ELSE IF i < 0 /\ -i <= Len(q)
    THEN [ok |-> TRUE, exc |-> "", value |-> q[Len(q) + i + 1]]
    ELSE [ok |-> FALSE, exc |-> "IndexError", value |-> PyNone]

\* value[d]
GetItem(value, d) ==
    CASE IsDict(value) ->
            IF ~IsIntSeg(d) /\ HasKey(value, d)
            THEN [ok |-> TRUE, exc |-> "", value |-> value.v[d]]
            ELSE [ok |-> FALSE, exc |-> "KeyError", value |-> PyNone]
      [] IsList(value) ->
            IF IsIntSeg(d) THEN SeqItem(value.v, SegInt(d))
            ELSE [ok |-> FALSE, exc |-> "TypeError", value |-> PyNone]
      [] IsStr(value) ->
            IF IsIntSeg(d)
            THEN LET r == SeqItem(StrChars(value.v), SegInt(d))
                 IN  IF r.ok THEN [r EXCEPT !.value = PyStr(@)] ELSE r
            ELSE [ok |-> FALSE, exc |-> "TypeError", value |-> PyNone]
      [] OTHER -> [ok |-> FALSE, exc |-> "TypeError", value |-> PyNone]

\* for obj in value: if obj['name'] == d: ... over a list.
RECURSIVE ScanNamed(_, _)
ScanNamed(objs, name) ==
    IF objs = <<>> THEN [found |-> FALSE, exc |-> "", value |-> PyNone]
    ELSE LET obj == Head(objs)
         IN  IF ~IsDict(obj)
             THEN [found |-> FALSE, exc |-> "TypeError", value |-> PyNone]
             ELSE IF ~HasKey(obj, "name")
             THEN [found |-> FALSE, exc |-> "KeyError", value |-> PyNone]
             ELSE IF obj.v["name"] = PyStr(name)
             THEN [found |-> TRUE, exc |-> "", value |-> obj]
             ELSE ScanNamed(Tail(objs), name)

\* The '@name' branch: a dict iterates over its keys and a string over its
\* characters, which are strings and cannot be indexed with 'name'.
FindNamed(value, name) ==
    CASE IsList(value) -> ScanNamed(value.v, name)
      [] IsDict(value) ->
            IF DOMAIN value.v = {}
            THEN [found |-> FALSE, exc |-> "", value |-> PyNone]
            ELSE [found |-> FALSE, exc |-> "TypeError", value |-> PyNone]
      [] IsStr(value) ->
            IF StrChars(value.v) = <<>>
            THEN [found |-> FALSE, exc |-> "", value |-> PyNone]
            ELSE [found |-> FALSE, exc |-> "TypeError", value |-> PyNone]
      [] OTHER -> [found |-> FALSE, exc |-> "TypeError", value |-> PyNone]

\* A structural miss answered like a missing key.
OnStructuralMissDefault(stripped, default) ==
    IF stripped \in DOMAIN SchemaDefaults
    THEN Returned(SchemaDefaults[stripped])
    ELSE Returned(default)

\* except (TypeError, IndexError): return default
OnStructuralMiss(stripped, default) == Returned(default)

\* except KeyError: the schema default of the stripped option, else default.
OnMissingKey(stripped, default) ==
    IF stripped \in DOMAIN SchemaDefaults
    THEN Returned(SchemaDefaults[stripped])
    ELSE Returned(default)

\* The loop over prepared_option.
RECURSIVE Traverse(_, _, _, _)
Traverse(value, segs, stripped, default) ==
    IF segs = <<>> THEN Returned(value)
    ELSE
      LET d == Head(segs)
      IN  IF IsAtSeg(d)
          THEN LET r == FindNamed(value, SegAtName(d))
               IN  IF r.found
                   THEN Traverse(r.value, Tail(segs), stripped, default)
                   ELSE IF r.exc = "" THEN Returned(default)
                   ELSE Raised(r.exc, "get", {})
          ELSE LET r == GetItem(value, d)
               IN  IF r.ok
                   THEN Traverse(r.value, Tail(segs), stripped, default)
                   ELSE IF r.exc = "KeyError"
                   THEN OnMissingKey(stripped, default)
                   ELSE OnStructuralMiss(stripped, default)

\* A get that never consults the sticky options.
StickyIgnored(sticky, stripped) == FALSE

\* Whether self._sticky_options[stripped_opt] answers before the document is
\* read.
StickyHit(sticky, stripped) == stripped \in DOMAIN sticky

\* get(option, default) on a SiteConfig with these fields.
GetResult(doc, lc, sticky, path, default) ==
    IF \E i \in DOMAIN path : path[i] = ""
    THEN Raised("IndexError", "get", {})
    ELSE IF StickyHit(sticky, StrippedOpt(path))
    THEN Returned(sticky[StrippedOpt(path)])
    ELSE Traverse(PickConfig(doc, lc), path, StrippedOpt(path), default)

-----------------------------------------------------------------------------
(* Documents *)

Names(names) == PyList([i \in DOMAIN names |-> PyStr(names[i])])

Partition(name, environs) ==
    PyDict([name |-> PyStr(name), environs |-> Names(environs)])

System(name, hostnames, partitions) ==
    PyDict([name |-> PyStr(name), hostnames |-> Names(hostnames),
            partitions |-> PyList(partitions)])

\* A named record of a section, told from its siblings by its 'cc' field.
Environment(name, target_systems, cc) ==
    PyDict([name |-> PyStr(name), target_systems |-> Names(target_systems),
            cc |-> PyStr(cc)])

\* A named record that leaves target_systems to the schema default.
EnvironmentAnywhere(name, cc) ==
    PyDict([name |-> PyStr(name), cc |-> PyStr(cc)])

\* A record of a section whose records have no name.
Unnamed(target_systems, field, value) ==
    PyDict(("target_systems" :> Names(target_systems)) @@ (field :> value))

\* The end-to-end example of the specification.
ExampleDoc ==
    PyDict([systems |-> PyList(<<
                System("daint", <<"daint.*">>, <<Partition("mc", <<"gnu">>)>>) >>),
            environments |-> PyList(<<Environment("gnu", <<"*">>, "gcc")>>)])

\* The example with an environment that is not defined.
ExampleDocIntel ==
    PyDict([systems |-> PyList(<<
                System("daint", <<"daint.*">>,
                       <<Partition("mc", <<"gnu", "intel">>)>>) >>),
            environments |-> PyList(<<Environment("gnu", <<"*">>, "gcc")>>)])

\* Two systems, records for several scopes, and sections without names.
TwoSystemsDoc ==
    PyDict([systems |-> PyList(<<
                System("sysA", <<"a.*">>, <<Partition("partX", <<"gnu">>),
                                           Partition("partY", <<"gnu">>)>>),
                System("sysB", <<"b.*">>, <<Partition("x", <<"intel">>)>>) >>),
            environments |-> PyList(<<
                Environment("gnu", <<"*">>, "gcc"),
                Environment("gnu", <<"sysA:partX">>, "gcc-x"),
                Environment("intel", <<"sysA">>, "icc") >>),
            logging |-> PyList(<<Unnamed(<<"sysA">>, "level", PyStr("debug"))>>),
            general |-> PyList(<<
                Unnamed(<<"*">>, "verbose", PyInt(1)),
                Unnamed(<<"sysA:partY">>, "colorize", PyStr("False")) >>)])

\* The documents the object is exercised on with all of its operations.
SmallDocs == {ExampleDoc, ExampleDocIntel, TwoSystemsDoc}

\* The systems sections of the document family: two systems; a system name
\* used twice; a partition name used twice in one system; one partition name
\* in two systems; a system with no partition.
SystemsChoices ==
    { << System("sysA", <<"a.*">>, <<Partition("partX", <<"gnu">>),
                                    Partition("partY", <<"gnu">>)>>),
         System("sysB", <<"b.*">>, <<Partition("x", <<"intel">>)>>) >>,
      << System("sysA", <<"a.*">>, <<Partition("partX", <<"gnu">>)>>),
         System("sysA", <<"a2.*">>, <<Partition("partY", <<"intel">>)>>) >>,
      << System("sysA", <<"a.*">>, <<Partition("partX", <<"gnu">>),
                                    Partition("partX", <<"intel">>)>>),
         System("sysB", <<"b.*">>, <<Partition("x", <<"intel">>)>>) >>,
      << System("sysA", <<"a.*">>, <<Partition("partX", <<"gnu">>)>>),
         System("sysB", <<"b.*">>, <<Partition("partX", <<"intel">>)>>) >>,
      << System("sysA", <<"a.*">>, <<>>),
         System("sysB", <<"b.*">>, <<Partition("x", <<"intel">>)>>) >> }

\* The records an environments section of the family is drawn from, in the
\* order they keep in the section.
EnvironmentPool ==
    << Environment("gnu", <<"*">>, "gcc"),
       Environment("gnu", <<"sysA">>, "gcc-a"),
       Environment("gnu", <<"sysA:partX">>, "gcc-x"),
       EnvironmentAnywhere("intel", "icc"),
       Environment("gnu", <<"sysA", "*">>, "gcc-late"),
       Environment("intel", <<"sysB:x">>, "icc-x") >>

\* How many records of the pool a section is drawn from.
NumEnvRecs == 5

\* The records of `pool` at the positions in `chosen`, in pool order.
RECURSIVE PickRecords(_, _, _)
PickRecords(pool, chosen, i) ==
    IF i > Len(pool) THEN <<>>
    ELSE (IF i \in chosen THEN <<pool[i]>> ELSE <<>>)
             \o PickRecords(pool, chosen, i + 1)

LoggingChoices ==
    { <<Unnamed(<<"*">>, "level", PyStr("info"))>>,
      <<Unnamed(<<"sysA">>, "level", PyStr("debug"))>> }

FamilyDoc(systems, chosen, logging) ==
    PyDict([systems |-> PyList(systems),
            environments |-> PyList(PickRecords(EnvironmentPool, chosen, 1)),
            logging |-> PyList(logging)])

\* The documents select_subconfig and validate are checked on.
DocFamily ==
    { FamilyDoc(s, c, l) : s \in SystemsChoices,
                           c \in SUBSET (1..NumEnvRecs),
                           l \in LoggingChoices }

\* The targets select_subconfig is called with.
Targets ==
    {"sysA", "sysA:partX", "sysA:partY", "sysA:nope", "sysB", "sysC",
     "daint:mc"}

\* The targets it is called with on the document family.
FamilyTargets ==
    {"sysA", "sysA:partX", "sysA:partY", "sysA:nope", "sysB", "sysB:x",
     "sysB:partX", "sysC"}

\* The options get is called with.
GetPaths ==
    { <<"systems", "0", "partitions", "0", "name">>,
      <<"systems", "0", "partitions", "0", "max_jobs">>,
      <<"systems", "0", "partitions", "7", "max_jobs">>,
      <<"systems", "0", "name", "0">>,
      <<"systems", "0", "@gnu">>,
      <<"environments", "@gnu", "target_systems">>,
      <<"environments", "@nope", "cc">>,
      <<"general", "0", "colorize">>,
      <<"general", "1", "colorize">>,
      <<"general", "colorize">>,
      <<"general", "0", "verbose", "0">>,
      <<"modes">>,
      <<"">> }

\* The defaults get is called with.
GetDefaults == {PyNone, PyStr("fallback")}

\* The options and values add_sticky_option is called with.
StickyOptions ==
    { <<"general", "colorize">>,
      <<"general", "0", "colorize">>,
      <<"systems", "partitions", "name">> }

StickyValues == {PyStr("cli"), PyNone}

\* How many sticky options are held at once.
MaxSticky == 1

-----------------------------------------------------------------------------
(* The parser state *)

\* A namespace object, and None in its place.
Namespace(attrs) == [present |-> TRUE, attrs |-> attrs]

NoNamespace == [present |-> FALSE, attrs |-> [k \in {} |-> PyNone]]

\* No call made on a parser yet.  options and carried are the arguments of
\* the last parse_args that returned, name the option of the last
\* __getattr__, out and errors how the last call ended.
NoParserCall ==
    [op |-> "", name |-> "", options |-> [k \in {} |-> PyNone],
     carried |-> NoNamespace, out |-> Returned(PyNone), errors |-> <<>>]

\* No parser is in use.
NoParser ==
    /\ option_map = <<>>
    /\ groups = <<>>
    /\ environ = [k \in {} |-> <<>>]
    /\ namespace = NoNamespace
    /\ parser_last = NoParserCall

\* No call of a wrapped function yet.  pc is where the call stands ("idle"
\* for none running), todo the selected hooks still to run, ran what the call
\* has run so far and out how it ended.
NoHookCall ==
    [pc |-> "idle", func |-> "", todo |-> <<>>, ran |-> <<>>,
     out |-> Returned(PyNone)]

\* No pipeline function is wrapped.
NoHooks ==
    /\ hooks = [phase \in {} |-> <<>>]
    /\ disabled_hooks = {}
    /\ hook_call = NoHookCall

\* detect_topology has not been called.  A call is kept with the partitions and
\* files it found, what cpuinfo() gave it and how it ended.
NoTopologyCall ==
    [op |-> "", parts |-> <<>>, files |-> <<>>, cpuinfo |-> "{}",
     out |-> Returned(PyNone)]

\* No system is loaded in the runtime.
NoTopology ==
    /\ topo_parts = <<>>
    /\ topo_files = <<>>
    /\ topo_options = [remote_detect |-> FALSE, treat_warnings |-> FALSE]
    /\ topo_last = NoTopologyCall

-----------------------------------------------------------------------------
(* The object *)

NoCall ==
    [op |-> "__init__", target |-> "", path |-> <<>>, default |-> PyNone,
     value |-> PyNone, out |-> Returned(PyNone)]

\* _SiteConfig(site_config, filename)
Constructed(doc, required) ==
    /\ site_config = doc
    /\ local_config = EmptyDict
    /\ local_system = PyNone
    /\ sticky_options = [k \in {} |-> PyNone]
    /\ schema_required = required
    /\ given = doc
    /\ pinned = [k \in {} |-> PyNone]
    /\ last = NoCall

Init ==
    /\ \E doc \in SmallDocs, required \in RequiredChoices :
           Constructed(doc, required)
    /\ NoParser
    /\ NoHooks
    /\ NoTopology

InitFamily ==
    /\ \E doc \in DocFamily, required \in RequiredChoices :
           Constructed(doc, required)
    /\ NoParser
    /\ NoHooks
    /\ NoTopology

select_subconfig(fullname) ==
    \E r \in {SelectResult(site_config, local_config, local_system,
                           schema_required, fullname)} :
        /\ site_config' = r.doc
        /\ local_config' = r.lc
        /\ local_system' = r.ls
        /\ last' = [NoCall EXCEPT !.op = "select_subconfig",
                                  !.target = fullname, !.out = r.out]
        /\ UNCHANGED <<sticky_options, schema_required, given, pinned>>

validate ==
    /\ last' = [NoCall EXCEPT !.op = "validate",
                   !.out = ValidateResult(site_config, local_config,
                                          schema_required)]
    /\ UNCHANGED <<site_config, local_config, local_system, sticky_options,
                   schema_required, given, pinned>>

\* get, were it to keep the default it was given as a sticky option.
get_keeping_default(option, default) ==
    /\ last' = [NoCall EXCEPT !.op = "get", !.path = option,
                   !.default = default,
                   !.out = GetResult(site_config, local_config,
                                     sticky_options, option, default)]
    /\ sticky_options' = (option :> default) @@ sticky_options
    /\ UNCHANGED <<site_config, local_config, local_system, schema_required,
                   given, pinned>>

\* get(option, default): the result is returned, no field is written.
get(option, default) ==
    /\ last' = [NoCall EXCEPT !.op = "get", !.path = option,
                   !.default = default,
                   !.out = GetResult(site_config, local_config,
                                     sticky_options, option, default)]
    /\ UNCHANGED <<site_config, local_config, local_system, sticky_options,
                   schema_required, given, pinned>>

\* self._sticky_options[option] = value
StickyAfterAdd(sticky, option, value) == (option :> value) @@ sticky

\* self._sticky_options.pop(option, None)
StickyAfterRemove(sticky, option) ==
    [k \in DOMAIN sticky \ {option} |-> sticky[k]]

\* add_sticky_option, were it to reset the reduced view as well.
add_sticky_option_resetting_view(option, value) ==
    /\ Cardinality(DOMAIN sticky_options \cup {option}) <= MaxSticky
    /\ sticky_options' = StickyAfterAdd(sticky_options, option, value)
    /\ pinned' = (option :> value) @@ pinned
    /\ local_config' = EmptyDict
    /\ last' = [NoCall EXCEPT !.op = "add_sticky_option", !.path = option,
                              !.value = value]
    /\ UNCHANGED <<site_config, local_system, schema_required, given>>

\* add_sticky_option(option, value)
add_sticky_option(option, value) ==
    /\ Cardinality(DOMAIN sticky_options \cup {option}) <= MaxSticky
    /\ sticky_options' = StickyAfterAdd(sticky_options, option, value)
    /\ pinned' = (option :> value) @@ pinned
    /\ last' = [NoCall EXCEPT !.op = "add_sticky_option", !.path = option,
                              !.value = value]
    /\ UNCHANGED <<site_config, local_config, local_system, schema_required,
                   given>>

remove_sticky_option(option) ==
    /\ sticky_options' = StickyAfterRemove(sticky_options, option)
    /\ pinned' = [k \in DOMAIN pinned \ {option} |-> pinned[k]]
    /\ last' = [NoCall EXCEPT !.op = "remove_sticky_option", !.path = option]
    /\ UNCHANGED <<site_config, local_config, local_system, schema_required,
                   given>>

\* The reduced view after its caller set a field of its first system record:
\* __getitem__ hands out the view's own objects.
EditedView(lc) ==
    PyDict([lc.v EXCEPT !["systems"] =
        PyList(<<PyDict(("descr" :> PyStr("edited")) @@ Head(@.v).v)>>
                   \o Tail(@.v))])

caller_edits_view ==
    /\ DOMAIN local_config.v # {}
    /\ local_config.v["systems"].v # <<>>
    /\ local_config' = EditedView(local_config)
    /\ last' = [NoCall EXCEPT !.op = "__getitem__"]
    /\ UNCHANGED <<site_config, local_system, sticky_options, schema_required,
                   given, pinned>>

Next ==
    /\ \/ \E fullname \in Targets : select_subconfig(fullname)
       \/ validate
       \/ \E option \in GetPaths, default \in GetDefaults :
              get(option, default)
       \/ \E option \in StickyOptions, value \in StickyValues :
              add_sticky_option(option, value)
       \/ \E option \in StickyOptions : remove_sticky_option(option)
       \/ caller_edits_view
    /\ UNCHANGED <<parser_vars, hook_vars, topo_vars>>

Spec == Init /\ [][Next]_vars

\* select_subconfig and validate alone, over the document family.
NextFamily ==
    /\ \/ \E fullname \in FamilyTargets : select_subconfig(fullname)
       \/ validate
    /\ UNCHANGED <<parser_vars, hook_vars, topo_vars>>

SpecFamily == InitFamily /\ [][NextFamily]_vars

-----------------------------------------------------------------------------
(* Command-line options (reframe/frontend/argparse.py)                     *)
(*                                                                         *)
(* A declared option is a record: name is the dest name, flags tells       *)
(* whether add_argument was given flags (a pseudo-argument has none),      *)
(* nargs is "?" for a flag that may come without an argument and then      *)
(* yields CONST_DEFAULT, and envvar, configvar, action, type and default   *)
(* are the tuple kept in _option_map.  envvar is the whitespace split of   *)
(* the envvar string and <<>> stands for None; configvar is the '/'-split  *)
(* of the configuration path and <<>> stands for None.  The text of an     *)
(* environment variable is a sequence of atoms, strings without any        *)
(* delimiter in them and the delimiters themselves: "a,b" is               *)
(* <<"a", ",", "b">>.  A namespace is a function from attribute     *)
(* names to values; an attribute it does not hold reads as None.           *)

PyBool(b) == [t |-> "bool", v |-> b]

\* CONST_DEFAULT = _Undefined()
CONST_DEFAULT == [t |-> "undefined", v |-> "CONST_DEFAULT"]

\* A test for None alone.
IsNone(val) == val = PyNone

\* _undefined(val)
Undefined(val) == val = PyNone \/ val = CONST_DEFAULT

\* The tuple add_argument keeps in _option_map, with the name it is kept
\* under and what add_argument passes on to the underlying parser.
Option(name, flags, nargs, envvar, configvar, action, type, default) ==
    [name |-> name, flags |-> flags, nargs |-> nargs, envvar |-> envvar,
     configvar |-> configvar, action |-> action, type |-> type,
     default |-> default]

\* The names of an option map, and the option kept under a name.
OptionNames(omap) == {omap[i].name : i \in DOMAIN omap}

OptionNamed(omap, name) ==
    omap[CHOOSE i \in DOMAIN omap : omap[i].name = name]

\* The string the atoms of a text make.
RECURSIVE Text(_)
Text(atoms) == IF atoms = <<>> THEN "" ELSE Head(atoms) \o Text(Tail(atoms))

\* ret.split(delim): `piece` is the part read since the last delimiter.
RECURSIVE SplitOn(_, _, _)
SplitOn(atoms, delim, piece) ==
    IF atoms = <<>> THEN <<PyStr(piece)>>
    ELSE IF Head(atoms) = delim
    THEN <<PyStr(piece)>> \o SplitOn(Tail(atoms), delim, "")
    ELSE SplitOn(Tail(atoms), delim, piece \o Head(atoms))

\* typ.Bool(ret)
Bool(atoms) ==
    CASE Text(atoms) \in {"true", "yes", "1"} ->
             [ok |-> TRUE, exc |-> "", value |-> PyBool(TRUE)]
      [] Text(atoms) \in {"false", "no", "0"} ->
             [ok |-> TRUE, exc |-> "", value |-> PyBool(FALSE)]
      [] OTHER -> [ok |-> FALSE, exc |-> "TypeError", value |-> PyNone]

\* arg_type(ret) for the element types of the model: int raises ValueError
\* for a text that is no number.
ArgType(type, atoms) ==
    CASE type = "int" /\ Text(atoms) = "7" ->
             [ok |-> TRUE, exc |-> "", value |-> PyInt(7)]
      [] type = "int" ->
             [ok |-> FALSE, exc |-> "ValueError", value |-> PyNone]
      [] OTHER -> [ok |-> TRUE, exc |-> "", value |-> PyStr(Text(atoms))]

\* envvar, *delim = envvar.split(maxsplit=2); delim[0] if delim else ','
EnvName(envvar) == envvar[1]

EnvDelim(envvar) == IF Len(envvar) >= 2 THEN envvar[2] ELSE ","

\* The conversion of the text of a set environment variable.
FromEnv(opt, atoms) ==
    CASE opt.action \in {"append", "append_const"} ->
             Returned(PyList(SplitOn(atoms, EnvDelim(opt.envvar), "")))
      [] opt.action \in {"store_true", "store_false"} ->
             IF Bool(atoms).ok THEN Returned(Bool(atoms).value)
             ELSE IF Bool(atoms).exc = "TypeError"
             THEN Raised("ValueError", "not a boolean",
                         {EnvName(opt.envvar)})
             ELSE Raised(Bool(atoms).exc, "typ.Bool", {EnvName(opt.envvar)})
      [] opt.action = "store" /\ opt.type # "str" ->
             IF ArgType(opt.type, atoms).ok
             THEN Returned(ArgType(opt.type, atoms).value)
             ELSE IF ArgType(opt.type, atoms).exc = "TypeError"
             THEN Raised("ValueError", "cannot convert",
                         {EnvName(opt.envvar)})
             ELSE Raised(ArgType(opt.type, atoms).exc, "arg_type",
                         {EnvName(opt.envvar)})
      [] OTHER -> Returned(PyStr(Text(atoms)))

\* getattr(self.__namespace, name), None for an attribute the namespace
\* does not hold.
Attr(attrs, name) == IF name \in DOMAIN attrs THEN attrs[name] ELSE PyNone

\* os.getenv(envvar) is not None
EnvSet(env, name) == name \in DOMAIN env

\* _Namespace.__getattr__(name) for an option of the option map.
GetAttr(attrs, omap, env, name) ==
    LET opt     == OptionNamed(omap, name)
        ret     == Attr(attrs, name)
        default == IF ret = CONST_DEFAULT THEN CONST_DEFAULT ELSE opt.default
    IN  IF Undefined(ret) /\ opt.envvar # <<>>
        THEN IF EnvSet(env, EnvName(opt.envvar))
             THEN FromEnv(opt, env[EnvName(opt.envvar)])
             ELSE Returned(default)
        ELSE Returned(ret)

\* An update_config without its except clause.
CaughtNothing(exc) == FALSE

\* except ValueError as e
Caught(exc) == exc = "ValueError"

\* The loop of update_config over the options from position i on: the
\* errors collected and the sticky options after it, or the exception that
\* is not a ValueError and leaves the loop.
RECURSIVE UpdateConfig(_, _, _, _, _, _)
UpdateConfig(attrs, omap, env, i, errors, sticky) ==
    IF i > Len(omap)
    THEN [out |-> Returned(PyNone), errors |-> errors, sticky |-> sticky]
    ELSE
      LET opt == omap[i]
          r   == GetAttr(attrs, omap, env, opt.name)
      IN  IF opt.action = "version" \/ opt.configvar = <<>>
          THEN UpdateConfig(attrs, omap, env, i + 1, errors, sticky)
          ELSE IF r.status = "raise" /\ Caught(r.exc)
          THEN UpdateConfig(attrs, omap, env, i + 1,
                            Append(errors, [option |-> opt.name,
                                            what |-> r.what]),
                            sticky)
          ELSE IF r.status = "raise"
          THEN [out |-> r, errors |-> errors, sticky |-> sticky]
          ELSE IF ~Undefined(r.value)
          THEN UpdateConfig(attrs, omap, env, i + 1, errors,
                            StickyAfterAdd(sticky, opt.configvar, r.value))
          ELSE UpdateConfig(attrs, omap, env, i + 1, errors, sticky)

\* _resolve_attr(attr, namespaces): the first value that is not None; a
\* namespace that is None is a namespace that is not present.
RECURSIVE ResolveAttr(_, _)
ResolveAttr(attr, namespaces) ==
    IF namespaces = <<>> THEN PyNone
    ELSE IF Head(namespaces).present /\ Attr(Head(namespaces).attrs, attr) # PyNone
    THEN Attr(Head(namespaces).attrs, attr)
    ELSE ResolveAttr(attr, Tail(namespaces))

\* self._defaults after _update_defaults: the declared default of every
\* option.
Defaults(omap) ==
    Namespace([name \in OptionNames(omap) |-> OptionNamed(omap, name).default])

\* A lookup in the declared defaults before the namespace.
DefaultsFirst(omap, ns) == <<Defaults(omap), ns>>

\* The namespaces an attribute without a parsed value is looked up in:
\* [namespace, self._defaults]
LookupOrder(omap, ns) == <<ns, Defaults(omap)>>

\* An append option given on the command line whose parsed values are put
\* after the declared default when no namespace holds a value.
AppendAfterDefaults(omap, ns) == <<ns, Defaults(omap)>>

\* The namespaces an append option given on the command line is combined
\* with.
AppendAfter(omap, ns) == <<ns>>

\* resolved + v
Concat(resolved, v) == PyList(resolved.v \o v.v)

\* The loop of parse_args over the attributes of the parsed options.
ParseArgs(omap, options, ns) ==
    [attr \in DOMAIN options |->
        LET val == options[attr]
        IN  IF val = PyNone
            THEN ResolveAttr(attr, LookupOrder(omap, ns))
            ELSE IF OptionNamed(omap, attr).action = "append"
            THEN LET resolved ==
                         ResolveAttr(attr, AppendAfter(omap, ns))
                 IN  IF resolved # PyNone THEN Concat(resolved, val)
                     ELSE val
            ELSE val]

\* The option maps of the model.  x is a store or an append option, b a
\* boolean toggle, n an integer option, q an option whose flag may come
\* without an argument, version a version option, mode an option with no
\* environment variable and p a pseudo-argument.
X(action, envvar, default) ==
    Option("x", TRUE, "", envvar, <<"general", "x">>, action, "str", default)

B(default) ==
    Option("b", TRUE, "", <<"RFM_B">>, <<"general", "b">>, "store_true",
           "str", default)

N == Option("n", TRUE, "", <<"RFM_N">>, <<"general", "n">>, "store", "int",
            PyNone)

Q == Option("q", TRUE, "?", <<"RFM_Q">>, <<"general", "q">>, "store", "str",
            PyNone)

V == Option("version", TRUE, "", <<>>, <<>>, "version", "str", PyNone)

M(configvar, default) ==
    Option("mode", TRUE, "", <<>>, configvar, "store", "str", default)

P == Option("p", FALSE, "", <<"RFM_P">>, <<"general", "p">>, "store_true",
            "str", PyNone)

OptionMaps ==
    { << X("store", <<"RFM_X">>, PyNone), B(PyNone), N >>,
      << N, B(PyNone), X("store", <<"RFM_X">>, PyStr("dflt")) >>,
      << X("append", <<"RFM_X">>, PyNone), Q, V >>,
      << X("append", <<"RFM_X">>, PyList(<<PyStr("d")>>)),
         M(<<"general", "mode">>, PyStr("m")), B(PyBool(FALSE)) >>,
      << M(<<>>, PyNone), Q, X("store", <<"RFM_X">>, PyNone) >>,
      << P, X("append", <<"RFM_X", ":">>, PyNone), N >> }

\* The texts an environment variable is set to.
EnvTexts ==
    [RFM_X |-> {<<"a", ",", "b">>},
     RFM_B |-> {<<"true">>, <<"notabool">>},
     RFM_N |-> {<<"7">>, <<"abc">>},
     RFM_Q |-> {<<"env">>},
     RFM_P |-> {<<"notabool">>}]

\* The environment variables an option map binds.
BoundVars(omap) ==
    {EnvName(omap[i].envvar) : i \in {j \in DOMAIN omap : omap[j].envvar # <<>>}}

\* The environments: each bound variable unset or set to one of its texts.
Environments(omap) ==
    UNION { {e \in [set -> UNION {EnvTexts[v] : v \in DOMAIN EnvTexts}] :
                 \A v \in set : e[v] \in EnvTexts[v]} :
            set \in SUBSET BoundVars(omap) }

\* The attributes of the namespace the underlying parser returns: one per
\* option with flags, but for a version option.
ParsedNames(omap) ==
    {omap[i].name : i \in {j \in DOMAIN omap :
                               omap[j].flags /\ omap[j].action # "version"}}

\* The values the underlying parser gives an option found on the command
\* line.
CliValues(opt) ==
    CASE opt.action = "append" -> {PyList(<<PyStr("n")>>)}
      [] opt.action = "store_true" -> {PyBool(TRUE)}
      [] opt.action = "store_false" -> {PyBool(FALSE)}
      [] opt.action = "store" /\ opt.nargs = "?" ->
             {CONST_DEFAULT, PyStr("cli")}
      [] opt.action = "store" /\ opt.type = "int" -> {PyInt(3)}
      [] OTHER -> {PyStr("cli")}

\* self._holder.parse_args(args, None): every attribute is None or the value
\* parsed for it.
ParsedOptions(omap) ==
    {o \in [ParsedNames(omap) ->
               {PyNone} \cup UNION {CliValues(omap[i]) : i \in DOMAIN omap}] :
        \A name \in ParsedNames(omap) :
            o[name] \in {PyNone} \cup CliValues(OptionNamed(omap, name))}

\* A namespace of another parse that holds a value for x.
CarriedX(omap) ==
    IF "x" \in OptionNames(omap) /\ OptionNamed(omap, "x").action = "append"
    THEN Namespace([k \in {"x"} |-> PyList(<<PyStr("c")>>)])
    ELSE Namespace([k \in {"x"} |-> PyStr("c")])

\* A mutually exclusive group of the underlying parser, which has a
\* 'required' attribute, and a plain argument group, which has none.
MutexGroup(required, options) ==
    [kind |-> "mutex", required |-> required, options |-> options]

ArgGroup(options) == [kind |-> "plain", required |-> FALSE, options |-> options]

\* hasattr(grp, 'required') and grp.required
IsRequired(grp) == grp.kind = "mutex" /\ grp.required

\* suppress_required_groups.__enter__: the groups with the required ones
\* made optional when suppress_required is true, and the positions of the
\* groups that were changed.
Enter(grps, suppress_required) ==
    LET changed == IF suppress_required
                   THEN {i \in DOMAIN grps : IsRequired(grps[i])}
                   ELSE {}
    IN  [groups |-> [i \in DOMAIN grps |->
                        IF i \in changed
                        THEN [grps[i] EXCEPT !.required = FALSE]
                        ELSE grps[i]],
         changed_grp |-> changed]

\* A with statement that puts nothing back.
ExitKeepingSuppressed(grps, changed_grp) == grps

\* suppress_required_groups.__exit__: every changed group is required again.
Exit(grps, changed_grp) ==
    [i \in DOMAIN grps |->
        IF i \in changed_grp THEN [grps[i] EXCEPT !.required = TRUE]
        ELSE grps[i]]

\* self._holder.parse_args(args, None) ends in SystemExit: an argument is
\* rejected, a required group has none of its options on the command line,
\* or a mutually exclusive group has more than one.
HolderExits(grps, options, malformed) ==
    \/ malformed
    \/ \E i \in DOMAIN grps :
           LET found == {name \in grps[i].options \cap DOMAIN options :
                            options[name] # PyNone}
           IN  \/ IsRequired(grps[i]) /\ found = {}
               \/ grps[i].kind = "mutex" /\ Cardinality(found) > 1

\* The groups of a parser: a required mutually exclusive group that holds x,
\* a plain group with the other options and a mutually exclusive group that
\* is not required.
Groups(omap) ==
    << MutexGroup(TRUE, {"x"}),
       ArgGroup(ParsedNames(omap) \ {"x"}),
       MutexGroup(FALSE, {}) >>

\* A parser with one of the option maps, in one of the environments, before
\* any parse_args.
InitOptions ==
    /\ Constructed(ExampleDoc, <<"systems", "environments">>)
    /\ option_map \in OptionMaps
    /\ environ \in Environments(option_map)
    /\ namespace = NoNamespace
    /\ groups = Groups(option_map)
    /\ parser_last = NoParserCall
    /\ NoHooks
    /\ NoTopology

\* ArgumentParser.parse_args(args, namespace, suppress_required): options is
\* what the underlying parser makes of args if it accepts them, malformed
\* says that args has an argument it rejects whatever the groups are.  The
\* command line is parsed before the namespace is read: what a call returns
\* depends on its arguments, the groups, the option map and the environment
\* alone.
parse_args(options, malformed, carried, suppress_required) ==
    \E entered \in {Enter(groups, suppress_required)} :
        /\ parser_last.op \in {"", "parse_args"}
        /\ groups' = Exit(entered.groups, entered.changed_grp)
        /\ IF HolderExits(entered.groups, options, malformed)
           THEN /\ namespace' = namespace
                /\ parser_last' =
                       [parser_last EXCEPT !.op = "parse_args",
                            !.name = "",
                            !.out = Raised("SystemExit", "argument error", {}),
                            !.errors = <<>>]
           ELSE /\ namespace' =
                       Namespace(ParseArgs(option_map, options, carried))
                /\ parser_last' = [NoParserCall EXCEPT !.op = "parse_args",
                                                       !.options = options,
                                                       !.carried = carried]
        /\ UNCHANGED <<option_map, environ>>
        /\ UNCHANGED <<site_config, local_config, local_system,
                       sticky_options, schema_required, given, pinned, last>>

\* _Namespace.__getattr__(name) on the namespace parse_args returned.
getattr(name) ==
    /\ namespace.present
    /\ parser_last' = [parser_last EXCEPT !.op = "__getattr__",
                          !.name = name,
                          !.out = GetAttr(namespace.attrs, option_map,
                                          environ, name),
                          !.errors = <<>>]
    /\ UNCHANGED <<option_map, environ, namespace, groups>>
    /\ UNCHANGED <<site_config, local_config, local_system, sticky_options,
                   schema_required, given, pinned, last>>

\* _Namespace.update_config(site_config)
update_config ==
    /\ namespace.present
    /\ \E r \in {UpdateConfig(namespace.attrs, option_map, environ, 1, <<>>,
                              sticky_options)} :
           /\ sticky_options' = r.sticky
           /\ pinned' = r.sticky @@ pinned
           /\ parser_last' = [parser_last EXCEPT !.op = "update_config",
                                                 !.name = "",
                                                 !.out = r.out,
                                                 !.errors = r.errors]
    /\ UNCHANGED <<option_map, environ, namespace, groups>>
    /\ UNCHANGED <<site_config, local_config, local_system, schema_required,
                   given, last>>

\* The calls on a parser and its namespace, parse_args with arguments the
\* underlying parser can make options of and with arguments it rejects;
\* add_sticky_option is a sticky option set on the site configuration by
\* another caller.
NextOptions ==
    /\ \/ \E options \in ParsedOptions(option_map),
             carried \in {NoNamespace, CarriedX(option_map)},
             suppress_required \in BOOLEAN :
              parse_args(options, FALSE, carried, suppress_required)
       \/ \E suppress_required \in BOOLEAN :
              parse_args([name \in ParsedNames(option_map) |-> PyNone], TRUE,
                         NoNamespace, suppress_required)
       \/ \E name \in OptionNames(option_map) : getattr(name)
       \/ update_config
       \/ \E option \in {<<"general", "colorize">>} :
              add_sticky_option(option, PyStr("cli")) /\ UNCHANGED parser_vars
    /\ UNCHANGED <<hook_vars, topo_vars>>

SpecOptions == InitOptions /\ [][NextOptions]_vars

-----------------------------------------------------------------------------
(* Pipeline hooks: attach_hooks *)

HookNames == {"h1", "h2", "h3"}

PipelineFuncs == {"setup", "run"}

\* The registries the wrapped functions are given: a hook registered before
\* and after the same function, phases with several hooks, a function with
\* hooks on one side only and a function with none.
HookRegistries ==
    { [phase \in {"pre_setup", "post_setup", "post_run"} |->
          CASE phase = "pre_setup" -> <<"h1", "h2">>
            [] phase = "post_setup" -> <<"h3", "h1">>
            [] phase = "post_run" -> <<"h2">>],
      [phase \in {"pre_run"} |-> <<"h2", "h1", "h3">>] }

\* The call has not ended yet.
Running ==
    [status |-> "running", exc |-> "", what |-> "", detail |-> {},
     value |-> PyNone]

\* What a call has run: a hook of one kind, or the function itself.
Ran(kind, name) == [kind |-> kind, name |-> name]

\* select_hooks with the filter on obj._disabled_hooks left out.
SelectAllHooks(registry, disabled, kind, func) ==
    LET phase == kind \o func
    IN  IF phase \notin DOMAIN registry THEN <<>> ELSE registry[phase]

\* select_hooks(obj, kind): the hooks of phase kind + func.__name__, in the
\* order of the registry, without those named in obj._disabled_hooks.
SelectHooks(registry, disabled, kind, func) ==
    LET phase == kind \o func
    IN  IF phase \notin DOMAIN registry
        THEN <<>>
        ELSE SelectSeq(registry[phase], LAMBDA h : h \notin disabled)

\* _fn is entered: the pre hooks are selected before any of them runs.
call_fn(func) ==
    /\ hook_call.pc = "idle"
    /\ hook_call' = [pc |-> "pre", func |-> func,
                     todo |-> SelectHooks(hooks, disabled_hooks, "pre_", func),
                     ran |-> <<>>, out |-> Running]
    /\ UNCHANGED <<hooks, disabled_hooks>>

\* h(obj) for the next selected hook; an exception of the hook leaves _fn.
run_hook(returns) ==
    /\ hook_call.pc \in {"pre", "post"}
    /\ hook_call.todo # <<>>
    /\ LET h == Head(hook_call.todo)
           ran == Append(hook_call.ran, Ran(hook_call.pc, h))
       IN  hook_call' =
               IF returns
               THEN [hook_call EXCEPT !.todo = Tail(hook_call.todo), !.ran = ran]
               ELSE [hook_call EXCEPT !.pc = "idle", !.todo = <<>>, !.ran = ran,
                                      !.out = Raised("Exception", "hook", {h})]
    /\ UNCHANGED <<hooks, disabled_hooks>>

\* func(obj, *args, **kwargs) once the pre hooks are through; the post hooks
\* are selected after it returned, and its exception leaves _fn.
run_func(returns) ==
    /\ hook_call.pc = "pre"
    /\ hook_call.todo = <<>>
    /\ LET ran == Append(hook_call.ran, Ran("func", hook_call.func))
       IN  hook_call' =
               IF returns
               THEN [hook_call EXCEPT
                        !.pc = "post",
                        !.todo = SelectHooks(hooks, disabled_hooks, "post_",
                                             hook_call.func),
                        !.ran = ran]
               ELSE [hook_call EXCEPT
                        !.pc = "idle", !.ran = ran,
                        !.out = Raised("Exception", "function",
                                       {hook_call.func})]
    /\ UNCHANGED <<hooks, disabled_hooks>>

\* _fn returns after the last post hook.
return_fn ==
    /\ hook_call.pc = "post"
    /\ hook_call.todo = <<>>
    /\ hook_call' = [hook_call EXCEPT !.pc = "idle", !.out = Returned(PyNone)]
    /\ UNCHANGED <<hooks, disabled_hooks>>

\* A name is put into obj._disabled_hooks while no wrapped function runs.
disable_hook(name) ==
    /\ hook_call.pc = "idle"
    /\ name \notin disabled_hooks
    /\ disabled_hooks' = disabled_hooks \cup {name}
    /\ hook_call' = NoHookCall
    /\ UNCHANGED hooks

InitHooks ==
    /\ Constructed(ExampleDoc, {})
    /\ NoParser
    /\ hooks \in HookRegistries
    /\ disabled_hooks = {}
    /\ hook_call = NoHookCall
    /\ NoTopology

NextHooks ==
    /\ \/ \E func \in PipelineFuncs : call_fn(func)
       \/ \E returns \in BOOLEAN : run_hook(returns)
       \/ \E returns \in BOOLEAN : run_func(returns)
       \/ return_fn
       \/ \E name \in HookNames : disable_hook(name)
    /\ UNCHANGED <<config_vars, parser_vars, topo_vars>>

SpecHooks == InitHooks /\ [][NextHooks]_vars

-----------------------------------------------------------------------------
(* Topology auto-detection: detect_topology *)

\* part.processor.info: nothing known, or where the information came from.
NoInfo == "{}"

\* What a file of the topology prefix is when it is looked at: not there;
\* JSON text of the right shape, with what it holds; text that is not JSON;
\* bytes that are not text; JSON of the wrong shape; a path that exists but
\* cannot be opened.
FileKinds ==
    {"absent", "good", "notjson", "undecodable", "badschema", "unreadable"}

AbsentFile == [kind |-> "absent", info |-> NoInfo]

GoodFile(info) == [kind |-> "good", info |-> info]

BrokenFile(kind) == [kind |-> kind, info |-> NoInfo]

\* The files a partition can have under the topology prefix.
FileChoices ==
    {AbsentFile, GoodFile("file")}
        \cup {BrokenFile(kind) :
                 kind \in FileKinds \ {"absent", "good"}}

\* _load_info(filename, schema): the validated content; an OSError is raised
\* again or answered with {} after a warning, a schema violation becomes a
\* ConfigError, and what json.load raises otherwise is passed on.
load_info(file, treat_warnings) ==
    CASE file.kind = "good" -> Returned(file.info)
      [] file.kind = "notjson" ->
             Raised("JSONDecodeError", "could not load", {})
      [] file.kind = "undecodable" ->
             Raised("UnicodeDecodeError", "could not load", {})
      [] file.kind = "badschema" ->
             Raised("ConfigError", "could not validate meta-config file", {})
      [] OTHER ->
             IF treat_warnings
             THEN Raised("OSError", "could not load file", {})
             ELSE Returned(NoInfo)

\* _save_info(filename, topo_info): nothing for empty information; the
\* directory is made if it is missing, which it can only be when the file is,
\* and a failure of that is passed on; the file is written, and a failing
\* write is raised again or only warned about.  The file afterwards and how
\* the call ended.
save_info(file, topo_info, makedirs_works, writable, treat_warnings) ==
    IF topo_info = NoInfo
    THEN [file |-> file, out |-> Returned(PyNone)]
    ELSE IF file.kind = "absent" /\ ~makedirs_works
    THEN [file |-> file,
          out |-> Raised("OSError", "could not make topology directory", {})]
    ELSE IF writable
         THEN [file |-> GoodFile(topo_info), out |-> Returned(PyNone)]
         ELSE [file |-> file,
               out |-> IF treat_warnings
                       THEN Raised("OSError", "could not save topology file", {})
                       ELSE Returned(PyNone)]

\* _remote_detect(part, cli_job_options): the information of the remote job,
\* or, when anything fails, the exception again or {} after a warning.
remote_detect(remote_works, treat_warnings) ==
    IF remote_works
    THEN Returned("remote")
    ELSE IF treat_warnings
         THEN Raised("Exception", "failed to retrieve remote processor info", {})
         ELSE Returned(NoInfo)

\* The try statement without its except clause: nothing is ignored.
IgnoredNever(out) == FALSE

\* except json.decoder.JSONDecodeError: the file is ignored.
Ignored(out) == out.status = "raise" /\ out.exc = "JSONDecodeError"

\* The position inside one turn of the loop over the partitions.
Turn(part, files, found_procinfo, found_devinfo, out) ==
    [part |-> part, files |-> files, found_procinfo |-> found_procinfo,
     found_devinfo |-> found_devinfo, out |-> out]

\* The processor file, if the configuration has no processor information.
LoadProcessor(turn, treat_warnings) ==
    IF turn.found_procinfo \/ turn.files.processor.kind = "absent"
    THEN turn
    ELSE LET loaded == load_info(turn.files.processor, treat_warnings)
         IN  IF loaded.status = "return"
             THEN [turn EXCEPT !.part.processor = loaded.value,
                               !.found_procinfo = TRUE]
             ELSE IF Ignored(loaded) THEN turn
             ELSE [turn EXCEPT !.out = loaded]

\* The devices file, if the configuration has no devices.
LoadDevices(turn, treat_warnings) ==
    IF turn.out.status = "raise" \/ turn.found_devinfo
           \/ turn.files.devices.kind = "absent"
    THEN turn
    ELSE LET loaded == load_info(turn.files.devices, treat_warnings)
         IN  IF loaded.status = "return"
             THEN [turn EXCEPT
                      !.part.devices = IF loaded.value = NoInfo
                                       THEN <<>> ELSE <<loaded.value>>,
                      !.found_devinfo = TRUE]
             ELSE IF Ignored(loaded) THEN turn
             ELSE [turn EXCEPT !.out = loaded]

\* Auto-detection of the processor, if neither the configuration nor a file
\* gave it: cpuinfo() for a fully local partition, the remote job for another
\* one if remote detection is on; what was detected is saved.
AutoDetect(turn, options, cpuinfo, makedirs_works, writable, remote_works) ==
    IF turn.out.status = "raise" \/ turn.found_procinfo
    THEN turn
    ELSE IF turn.part.local
         THEN LET saved == save_info(turn.files.processor, cpuinfo,
                                     makedirs_works, writable,
                                     options.treat_warnings)
              IN  [turn EXCEPT !.part.processor = cpuinfo,
                               !.files.processor = saved.file,
                               !.out = saved.out]
         ELSE IF options.remote_detect
              THEN LET detected == remote_detect(remote_works,
                                                 options.treat_warnings)
                   IN  IF detected.status = "raise"
                       THEN [turn EXCEPT !.out = detected]
                       ELSE LET saved == save_info(turn.files.processor,
                                                   detected.value,
                                                   makedirs_works, writable,
                                                   options.treat_warnings)
                            IN  [turn EXCEPT
                                    !.part.processor = detected.value,
                                    !.files.processor = saved.file,
                                    !.out = saved.out]
              ELSE turn

\* One turn of the loop of detect_topology for a partition and its files.
DetectPartition(part, files, options, cpuinfo, makedirs_works, writable, remote_works) ==
    LET configured == Turn(part, files, part.processor # NoInfo,
                           part.devices # <<>>, Returned(PyNone))
    IN  IF configured.found_procinfo /\ configured.found_devinfo
        THEN configured
        ELSE AutoDetect(
                 LoadDevices(
                     LoadProcessor(configured, options.treat_warnings),
                     options.treat_warnings),
                 options, cpuinfo, makedirs_works, writable, remote_works)

\* The loop of detect_topology from partition i on; an exception ends it with
\* the later partitions untouched.
RECURSIVE DetectFrom(_, _, _, _, _, _, _, _)
DetectFrom(i, parts, files, options, cpuinfo, makedirs_works, writable, remote_works) ==
    IF i > Len(parts)
    THEN [parts |-> parts, files |-> files, out |-> Returned(PyNone)]
    ELSE LET turn == DetectPartition(parts[i], files[i], options, cpuinfo,
                                     makedirs_works, writable, remote_works)
             parts1 == [parts EXCEPT ![i] = turn.part]
             files1 == [files EXCEPT ![i] = turn.files]
         IN  IF turn.out.status = "raise"
             THEN [parts |-> parts1, files |-> files1, out |-> turn.out]
             ELSE DetectFrom(i + 1, parts1, files1, options, cpuinfo,
                             makedirs_works, writable, remote_works)

\* detect_topology(): cpuinfo is what local detection finds, makedirs_works
\* whether a missing directory of the topology prefix can be made, writable
\* whether its files can be written, remote_works whether the remote job
\* delivers.
detect_topology(cpuinfo, makedirs_works, writable, remote_works) ==
    LET done == DetectFrom(1, topo_parts, topo_files, topo_options, cpuinfo,
                           makedirs_works, writable, remote_works)
    IN  /\ topo_parts' = done.parts
        /\ topo_files' = done.files
        /\ topo_last' = [op |-> "detect_topology", parts |-> topo_parts,
                         files |-> topo_files, cpuinfo |-> cpuinfo,
                         out |-> done.out]
        /\ UNCHANGED topo_options

TopoPartition(processor, devices, local) ==
    [processor |-> processor, devices |-> devices, local |-> local]

\* A system of two partitions: the first in every state the configuration
\* and the topology prefix can give it, the second a fully local one without
\* configured topology whose files are missing or both not JSON.
InitTopology ==
    /\ Constructed(ExampleDoc, {})
    /\ NoParser
    /\ NoHooks
    /\ \E processor \in {NoInfo, "config"}, devices \in {<<>>, <<"config">>},
          local \in BOOLEAN :
           topo_parts = << TopoPartition(processor, devices, local),
                           TopoPartition(NoInfo, <<>>, TRUE) >>
    /\ \E topo_file \in FileChoices, dev_file \in FileChoices,
          second \in {AbsentFile, BrokenFile("notjson")} :
           topo_files = << [processor |-> topo_file, devices |-> dev_file],
                           [processor |-> second, devices |-> second] >>
    /\ topo_options \in [remote_detect : BOOLEAN, treat_warnings : BOOLEAN]
    /\ topo_last = NoTopologyCall

NextTopology ==
    /\ \E cpuinfo \in {"cpuinfo", NoInfo}, makedirs_works \in BOOLEAN,
          writable \in BOOLEAN, remote_works \in BOOLEAN :
           detect_topology(cpuinfo, makedirs_works, writable, remote_works)
    /\ UNCHANGED <<config_vars, parser_vars, hook_vars>>

SpecTopology == InitTopology /\ [][NextTopology]_vars

-----------------------------------------------------------------------------
(* Properties *)

\* An option with no positional and no '@' segment: its own stripped form.
IsStripped(option) ==
    /\ \A i \in DOMAIN option : option[i] # ""
    /\ StrippedOpt(option) = option

\* C1: while a stripped option S is pinned to v (add_sticky_option(S, v) was
\* called and remove_sticky_option(S) was not called since), every get(P, d)
\* with P an option whose stripped form is S returns v, whatever d, whatever
\* target is or is not selected and whatever the documents hold at P.
C1_StickyWins ==
    (/\ last.op = "get"
     /\ \A i \in DOMAIN last.path : last.path[i] # ""
     /\ StrippedOpt(last.path) \in DOMAIN pinned
     /\ IsStripped(StrippedOpt(last.path)))
    => last.out = Returned(pinned[StrippedOpt(last.path)])

\* C1 witness: with sysA:partY selected the reduced view holds "False" at
\* general/0/colorize, the option is pinned to "cli", and get returned "cli".
C1_Witness ==
    /\ last.op = "get"
    /\ last.path = <<"general", "0", "colorize">>
    /\ local_system = PyStr("sysA:partY")
    /\ HasKey(local_config, "general")
    /\ HasKey(local_config.v["general"].v[1], "colorize")
    /\ local_config.v["general"].v[1].v["colorize"] = PyStr("False")
    /\ <<"general", "colorize">> \in DOMAIN pinned
    /\ pinned[<<"general", "colorize">>] = PyStr("cli")
    /\ last.out = Returned(PyStr("cli"))

\* C2: the original document is the one given at construction after any
\* sequence of select_subconfig, validate, get, add_sticky_option and
\* remove_sticky_option calls.
C2_OriginalNeverChanged == site_config = given

\* C2 witness: select_subconfig("sysA:partX") succeeded and its view holds
\* one partition of sysA while the original still holds both.
C2_Witness ==
    /\ last.op = "select_subconfig"
    /\ last.target = "sysA:partX"
    /\ last.out.status = "return"
    /\ HasKey(local_config, "systems")
    /\ Len(local_config.v["systems"].v[1].v["partitions"].v) = 1
    /\ Len(site_config.v["systems"].v[1].v["partitions"].v) = 2

\* C4: a select_subconfig(T) call made while T is the active target returns
\* without raising and leaves the original document, the reduced view, the
\* active target and the sticky options as they were.
C4_RepeatedTargetIsNoOp ==
    [][ (/\ last'.op = "select_subconfig"
         /\ local_system # PyNone
         /\ local_system = PyStr(last'.target))
        => (/\ last'.out = Returned(PyNone)
            /\ UNCHANGED <<site_config, local_config, local_system,
                           sticky_options>>) ]_vars

\* C4 witness: the caller edited the view of sysA and called
\* select_subconfig("sysA") again: the edit is still in the view.
C4_Witness ==
    /\ last.op = "select_subconfig"
    /\ last.target = "sysA"
    /\ last.out.status = "return"
    /\ local_system = PyStr("sysA")
    /\ HasKey(local_config, "systems")
    /\ HasKey(local_config.v["systems"].v[1], "descr")

\* The view select_subconfig(fullname) leaves in a SiteConfig just constructed
\* from doc.
FreshView(doc, required, fullname) ==
    SelectResult(doc, EmptyDict, PyNone, required, fullname).lc

\* C3: after a select_subconfig(T) call that returned, the reduced view is
\* the one a SiteConfig just constructed from the same document gets for T,
\* whichever targets were selected or failed to be selected before.
C3_ViewDependsOnDocumentAndTarget ==
    (last.op = "select_subconfig" /\ last.out.status = "return")
    => local_config = FreshView(given, schema_required, last.target)

\* The records of a section that are named key.
RecordsNamed(config, section, key) ==
    IF HasKey(config, section)
    THEN SelectSeq(config.v[section].v,
                   LAMBDA r : HasKey(r, "name") /\ r.v["name"] = PyStr(key))
    ELSE <<>>

\* key is defined in section by one record per pattern of patterns, each
\* listing that pattern alone.
DefinedFor(doc, section, key, patterns) ==
    LET records == RecordsNamed(doc, section, key)
    IN  /\ Len(records) = Cardinality(patterns)
        /\ \A i \in DOMAIN records :
               /\ HasKey(records[i], "target_systems")
               /\ Len(records[i].v["target_systems"].v) = 1
        /\ {records[i].v["target_systems"].v[1].v : i \in DOMAIN records}
               = patterns

\* The record named key that lists pattern alone.
RecordFor(doc, section, key, pattern) ==
    LET records == RecordsNamed(doc, section, key)
    IN  records[CHOOSE i \in DOMAIN records :
                    records[i].v["target_systems"] = Names(<<pattern>>)]

\* The four cases of C5 for the key "gnu" of the environments section.
C5_Cases(doc, fullname, view) ==
    LET kept == RecordsNamed(view, "environments", "gnu")
    IN  /\ DefinedFor(doc, "environments", "gnu", {"*", "sysA", "sysA:partX"})
           => /\ fullname = "sysA:partX" =>
                   kept = <<RecordFor(doc, "environments", "gnu", "sysA:partX")>>
              /\ fullname = "sysA:partY" =>
                   kept = <<RecordFor(doc, "environments", "gnu", "sysA")>>
              /\ fullname = "sysB:x" =>
                   kept = <<RecordFor(doc, "environments", "gnu", "*")>>
        /\ (/\ DefinedFor(doc, "environments", "gnu", {"sysA", "sysA:partX"})
            /\ fullname = "sysB:x")
           => kept = <<>>

\* C5: when the key "gnu" is defined by records for "*", "sysA" and
\* "sysA:partX", a select_subconfig that reduces the document and succeeds
\* keeps the "sysA:partX" record for target sysA:partX, the "sysA" record for
\* sysA:partY and the "*" record for sysB:x; with no "*" record it keeps no
\* record named "gnu" for sysB:x.
C5_MostSpecificRecordKept ==
    [][ (/\ last'.op = "select_subconfig"
         /\ ~AlreadySelected(local_system, last'.target)
         /\ last'.out.status = "return")
        => C5_Cases(given, last'.target, local_config') ]_vars

\* C5 witness: "gnu" has the three records, select_subconfig("sysA:partY")
\* succeeded and the view holds the record of "sysA".
C5_Witness ==
    /\ last.op = "select_subconfig"
    /\ last.target = "sysA:partY"
    /\ last.out.status = "return"
    /\ local_system = PyStr("sysA:partY")
    /\ DefinedFor(given, "environments", "gnu", {"*", "sysA", "sysA:partX"})
    /\ RecordsNamed(local_config, "environments", "gnu")
           = <<Environment("gnu", <<"sysA">>, "gcc-a")>>

\* The system records of doc named as the target's system.
SystemsOf(doc, fullname) ==
    SelectSeq(doc.v["systems"].v,
              LAMBDA x : x.v["name"] = PyStr(SystemName(fullname)))

\* The partitions of the target: the one it names, else all of its system.
PartitionsOf(doc, fullname) ==
    LET partitions == SystemsOf(doc, fullname)[1].v["partitions"].v
    IN  IF Len(Components(fullname)) >= 2
        THEN SelectSeq(partitions,
                 LAMBDA x : x.v["name"] = PyStr(Components(fullname)[2]))
        ELSE partitions

\* The target names a system of doc and, if it names a partition, one of it.
TargetExists(doc, fullname) ==
    /\ SystemsOf(doc, fullname) # <<>>
    /\ PartitionsOf(doc, fullname) # <<>>

\* The records of a section that list a pattern applying to the target.
RecordsFor(doc, section, fullname) ==
    IF HasKey(doc, section)
    THEN {r \in Range(doc.v[section].v) :
             \E p \in Range(TargetSystems(r, section).v) :
                 ScopeMatches(p.v, fullname)}
    ELSE {}

\* The environments the partitions of the target list and no record defines
\* for it.
MissingEnvirons(doc, fullname) ==
    UNION { {e.v : e \in Range(p.v["environs"].v)} :
                p \in Range(PartitionsOf(doc, fullname)) }
    \ {r.v["name"].v : r \in RecordsFor(doc, "environments", fullname)}

\* The required sections with no record for the target.
MissingSections(doc, required, fullname) ==
    {n \in Range(required) \ {"systems"} : RecordsFor(doc, n, fullname) = {}}

\* System names are distinct and so are the partition names of each system.
UniqueNames(doc) ==
    LET systems == doc.v["systems"].v
    IN  /\ \A i, j \in DOMAIN systems :
               systems[i].v["name"] = systems[j].v["name"] => i = j
        /\ \A k \in DOMAIN systems :
               LET partitions == systems[k].v["partitions"].v
               IN  \A i, j \in DOMAIN partitions :
                       partitions[i].v["name"] = partitions[j].v["name"]
                           => i = j

\* Every environment a partition of the view's system record lists has a
\* record in the view's environments section.
EnvironsDefined(view) ==
    HasKey(view, "systems") =>
        \A p \in Range(view.v["systems"].v[1].v["partitions"].v) :
            \A e \in Range(p.v["environs"].v) :
                RecordsNamed(view, "environments", e.v) # <<>>

\* C6: after every select_subconfig(T) that returned, each environment listed
\* by a partition of the system record of the reduced view has a record in
\* the reduced environments section; and when an environment is missing for a
\* target that exists and has its required sections, the call raises an
\* error naming exactly the missing environments and T does not become the
\* active target.
C6_EnvironsDefinedAfterSelect ==
    /\ (last.op = "select_subconfig" /\ last.out.status = "return")
       => EnvironsDefined(local_config)
    /\ (/\ last.op = "select_subconfig"
        /\ TargetExists(given, last.target)
        /\ MissingSections(given, schema_required, last.target) = {}
        /\ MissingEnvirons(given, last.target) # {})
       => /\ last.out = Raised("ConfigError", "environments not defined",
                               MissingEnvirons(given, last.target))
          /\ local_system # PyStr(last.target)

\* The systems section C7 expects for a target: its system, with the
\* partition the target names or with all of its partitions.
ExpectedSystems(doc, fullname) ==
    <<PyDict([SystemsOf(doc, fullname)[1].v EXCEPT
                  !["partitions"] = PyList(PartitionsOf(doc, fullname))])>>

\* C7: on a document with unique names, select_subconfig raises 'system not
\* found' when no system is named as the target's, raises 'system/partition
\* combination not found' when the system has no partition named as the
\* target's, and after every call that returned the reduced systems section
\* is the one system of the target, with the named partition only or with
\* all its partitions in document order.
C7_SystemsSectionAfterSelect ==
    (last.op = "select_subconfig" /\ UniqueNames(given)) =>
        /\ SystemsOf(given, last.target) = <<>>
           => (last.out.status = "raise" /\ last.out.what = "system not found")
        /\ (/\ SystemsOf(given, last.target) # <<>>
            /\ Len(Components(last.target)) >= 2
            /\ PartitionsOf(given, last.target) = <<>>)
           => (/\ last.out.status = "raise"
               /\ last.out.what = "system/partition combination not found")
        /\ last.out.status = "return"
           => /\ HasKey(local_config, "systems")
              /\ local_config.v["systems"].v
                     = ExpectedSystems(given, last.target)

\* C8: select_subconfig raises 'section not defined for system' whenever the
\* target exists and a required section has no record for it, and after every
\* call that returned every required section is in the reduced view.
C8_RequiredSectionsAfterSelect ==
    last.op = "select_subconfig" =>
        /\ (/\ TargetExists(given, last.target)
            /\ MissingSections(given, schema_required, last.target) # {})
           => /\ last.out.status = "raise"
              /\ last.out.what = "section not defined for system"
              /\ last.out.detail \subseteq
                     MissingSections(given, schema_required, last.target)
        /\ last.out.status = "return"
           => \A i \in DOMAIN schema_required :
                  HasKey(local_config, schema_required[i])

\* C9: when the configuration validate hands to the schema check conforms,
\* validate raises if two systems share a name or two partitions of one
\* system share a name, and returns if the names are unique (one partition
\* name in two systems is no duplicate).
C9_ValidateChecksUniqueNames ==
    (/\ last.op = "validate"
     /\ SchemaValid(PickConfig(site_config, local_config), schema_required))
    => (last.out.status = "raise" <=> ~UniqueNames(given))

\* C9 witness: validate returned on a document whose two systems both have a
\* partition named partX.
C9_Witness ==
    /\ last.op = "validate"
    /\ last.out.status = "return"
    /\ Len(given.v["systems"].v) = 2
    /\ given.v["systems"].v[1].v["name"] # given.v["systems"].v[2].v["name"]
    /\ \A i \in {1, 2} :
           \E p \in Range(given.v["systems"].v[i].v["partitions"].v) :
               p.v["name"] = PyStr("partX")

\* How following the key and index segments of a path through value first
\* fails: at a mapping without the key, at an index past the end of a list,
\* or at an index or key applied to a value that holds nothing.
RECURSIVE FirstMiss(_, _)
FirstMiss(value, segs) ==
    IF segs = <<>> THEN "none"
    ELSE
      LET d == Head(segs)
      IN  CASE IsAtSeg(d) -> "other"
            [] value.t \in {"int", "none"} -> "non-container"
            [] IsDict(value) /\ ~IsIntSeg(d) ->
                   IF HasKey(value, d)
                   THEN FirstMiss(value.v[d], Tail(segs))
                   ELSE "missing key"
            [] IsList(value) /\ IsIntSeg(d) ->
                   IF SegInt(d) >= Len(value.v) THEN "index past end"
                   ELSE IF SegInt(d) >= 0
                   THEN FirstMiss(value.v[SegInt(d) + 1], Tail(segs))
                   ELSE "other"
            [] OTHER -> "other"

\* C10: with no sticky option for the stripped path, get(path, d) returns the
\* schema default of the stripped path when the traversal hits a missing
\* mapping key and the schema has that default, returns d when the key is
\* missing and the schema has no default, and returns d when the traversal
\* hits an index past a list's end or indexes a non-container, whether or not
\* the schema has a default for the stripped path.
C10_MissesAndDefaults ==
    (/\ last.op = "get"
     /\ \A i \in DOMAIN last.path : last.path[i] # ""
     /\ StrippedOpt(last.path) \notin DOMAIN sticky_options)
    => LET miss     == FirstMiss(PickConfig(site_config, local_config),
                                 last.path)
           stripped == StrippedOpt(last.path)
       IN  /\ (miss = "missing key" /\ stripped \in DOMAIN SchemaDefaults)
              => last.out = Returned(SchemaDefaults[stripped])
           /\ (miss = "missing key" /\ stripped \notin DOMAIN SchemaDefaults)
              => last.out = Returned(last.default)
           /\ miss \in {"index past end", "non-container"}
              => last.out = Returned(last.default)

\* C10 witness: get("general/0/verbose/0", "fallback") indexed the integer
\* at general/0/verbose and returned "fallback", although the schema has a
\* default for general/verbose.
C10_Witness ==
    /\ last.op = "get"
    /\ last.path = <<"general", "0", "verbose", "0">>
    /\ last.default = PyStr("fallback")
    /\ <<"general", "verbose">> \in DOMAIN SchemaDefaults
    /\ StrippedOpt(last.path) \notin DOMAIN sticky_options
    /\ FirstMiss(PickConfig(site_config, local_config), last.path)
           = "non-container"
    /\ last.out = Returned(PyStr("fallback"))

\* C11: get never raises: every get call, whatever the option, the document,
\* the selected target and the sticky options, returns a value.
C11_GetNeverRaises ==
    last.op = "get" => last.out.status = "return"

\* obj is a record named name.
IsNamed(obj, name) ==
    IsDict(obj) /\ HasKey(obj, "name") /\ obj.v["name"] = PyStr(name)

\* The value a path leads to in `value` by the three rules of C12: an integer
\* segment is a position in a list, an '@name' segment the first record of a
\* list of named records that is named name, any other segment a mapping
\* key; hit is FALSE where a rule does not apply.
RECURSIVE Follow(_, _)
Follow(value, segs) ==
    IF segs = <<>> THEN [hit |-> TRUE, value |-> value]
    ELSE
      LET d    == Head(segs)
          miss == [hit |-> FALSE, value |-> PyNone]
      IN  CASE IsAtSeg(d) ->
                   IF /\ IsList(value)
                      /\ \A i \in DOMAIN value.v :
                             IsDict(value.v[i]) /\ HasKey(value.v[i], "name")
                      /\ \E i \in DOMAIN value.v :
                             IsNamed(value.v[i], SegAtName(d))
                   THEN LET first == CHOOSE i \in DOMAIN value.v :
                                /\ IsNamed(value.v[i], SegAtName(d))
                                /\ \A j \in 1..(i - 1) :
                                       ~IsNamed(value.v[j], SegAtName(d))
                        IN  Follow(value.v[first], Tail(segs))
                   ELSE miss
            [] IsIntSeg(d) ->
                   IF /\ IsList(value)
                      /\ 0 <= SegInt(d)
                      /\ SegInt(d) < Len(value.v)
                   THEN Follow(value.v[SegInt(d) + 1], Tail(segs))
                   ELSE miss
            [] OTHER ->
                   IF IsDict(value) /\ HasKey(value, d)
                   THEN Follow(value.v[d], Tail(segs))
                   ELSE miss

\* The active document of C12: the reduced view once a target is selected,
\* else the full original.
ActiveDocument ==
    IF local_system # PyNone THEN local_config ELSE site_config

\* C12: with no sticky option for the stripped path, a get whose path leads
\* to a value in the active document (the reduced view once a target is
\* selected, else the full original) returns that value.
C12_GetFollowsActiveDocument ==
    (/\ last.op = "get"
     /\ \A i \in DOMAIN last.path : last.path[i] # ""
     /\ StrippedOpt(last.path) \notin DOMAIN sticky_options
     /\ Follow(ActiveDocument, last.path).hit)
    => last.out = Returned(Follow(ActiveDocument, last.path).value)

\* C13: select_subconfig, returning or raising, and validate leave the sticky
\* options as they were; add_sticky_option and remove_sticky_option leave the
\* original document, the reduced view and the active target as they were.
C13_StickyOptionsFrame ==
    [][ /\ last'.op \in {"select_subconfig", "validate"}
           => UNCHANGED sticky_options
        /\ last'.op \in {"add_sticky_option", "remove_sticky_option"}
           => UNCHANGED <<site_config, local_config, local_system>> ]_vars

\* C13 witness: an option is pinned, a select_subconfig raised and the option
\* is still pinned to the same value.
C13_Witness ==
    /\ last.op = "select_subconfig"
    /\ last.out.status = "raise"
    /\ DOMAIN sticky_options # {}
    /\ sticky_options = pinned

\* C14: a get call leaves the original document, the reduced view, the
\* active target and the sticky options as they were.
C14_GetChangesNoState ==
    [][ last'.op = "get"
        => UNCHANGED <<site_config, local_config, local_system,
                       sticky_options>> ]_vars

\* C14 witness: get returned a value of the reduced view while a target is
\* selected and an option is pinned.
C14_Witness ==
    /\ last.op = "get"
    /\ last.path = <<"systems", "0", "partitions", "0", "name">>
    /\ local_system # PyNone
    /\ HasKey(local_config, "systems")
    /\ DOMAIN sticky_options # {}
    /\ last.out.status = "return"
    /\ last.out.value # last.default

\* The option the last __getattr__ resolved, the value the command line
\* gave it in the last parse_args and the value the namespace passed to that
\* parse_args holds for it (None for no value).
LastOption == OptionNamed(option_map, parser_last.name)

LastCli == Attr(parser_last.options, parser_last.name)

LastCarried ==
    IF parser_last.carried.present
    THEN Attr(parser_last.carried.attrs, parser_last.name)
    ELSE PyNone

\* C15: an option with a flag and an environment variable, parsed with no
\* namespace carried over, resolves to the command-line value if one was
\* given, else to the converted text of the environment variable if it is
\* set, else to the declared default, whether that default is None or not.
C15_CliThenEnvThenDefault ==
    (/\ parser_last.op = "__getattr__"
     /\ LastOption.flags
     /\ LastOption.action # "version"
     /\ LastOption.envvar # <<>>
     /\ ~parser_last.carried.present)
    => IF LastCli # PyNone
       THEN parser_last.out = Returned(LastCli)
       ELSE IF EnvName(LastOption.envvar) \in DOMAIN environ
       THEN parser_last.out
                = FromEnv(LastOption, environ[EnvName(LastOption.envvar)])
       ELSE parser_last.out = Returned(LastOption.default)

\* C16: an append option with an environment variable that is set, given no
\* value on the command line and a list L in the namespace carried over,
\* resolves to L followed by the pieces of the variable's text.
C16_CarriedThenEnvPieces ==
    (/\ parser_last.op = "__getattr__"
     /\ LastOption.action = "append"
     /\ LastOption.envvar # <<>>
     /\ EnvName(LastOption.envvar) \in DOMAIN environ
     /\ LastCli = PyNone
     /\ IsList(LastCarried))
    => parser_last.out
           = Returned(PyList(LastCarried.v
                 \o SplitOn(environ[EnvName(LastOption.envvar)],
                            EnvDelim(LastOption.envvar), "")))

\* The resolution of option i of the option map on the current namespace.
Resolved(i) ==
    GetAttr(namespace.attrs, option_map, environ, option_map[i].name)

\* The options update_config resolves: those with a configuration path that
\* are no version options.
WithConfigvar ==
    {i \in DOMAIN option_map : /\ option_map[i].configvar # <<>>
                               /\ option_map[i].action # "version"}

\* The options update_config has a value to push for.
Eligible ==
    {i \in WithConfigvar : /\ Resolved(i).status = "return"
                           /\ Resolved(i).value # PyNone
                           /\ Resolved(i).value # CONST_DEFAULT}

\* A boolean toggle or a typed store option whose environment variable is
\* read, the namespace holding no value for it, and is set to a text that
\* does not convert.
BadEnvText(i) ==
    LET opt == option_map[i]
    IN  /\ Attr(namespace.attrs, opt.name) \in {PyNone, CONST_DEFAULT}
        /\ opt.envvar # <<>>
        /\ EnvName(opt.envvar) \in DOMAIN environ
        /\ \/ /\ opt.action \in {"store_true", "store_false"}
              /\ ~Bool(environ[EnvName(opt.envvar)]).ok
           \/ /\ opt.action = "store"
              /\ opt.type # "str"
              /\ ~ArgType(opt.type, environ[EnvName(opt.envvar)]).ok

C18_StickyForEligibleOnly ==
    [][ update_config =>
          /\ DOMAIN sticky_options'
                 = DOMAIN sticky_options
                       \cup {option_map[i].configvar : i \in Eligible}
          /\ \A i \in Eligible :
                 sticky_options'[option_map[i].configvar] = Resolved(i).value
          /\ \A k \in DOMAIN sticky_options
                          \ {option_map[i].configvar : i \in Eligible} :
                 sticky_options'[k] = sticky_options[k] ]_vars

\* C18 witness: update_config ran on an option map with a version option and
\* an option resolved to CONST_DEFAULT: x was pushed, q was not, and the
\* sticky option set before is still there.
C18_Witness ==
    /\ parser_last.op = "update_config"
    /\ \E i \in DOMAIN option_map : option_map[i].action = "version"
    /\ \E i \in DOMAIN option_map :
           /\ option_map[i].name = "q"
           /\ Resolved(i) = Returned(CONST_DEFAULT)
    /\ <<"general", "x">> \in DOMAIN sticky_options
    /\ <<"general", "q">> \notin DOMAIN sticky_options
    /\ <<"general", "colorize">> \in DOMAIN sticky_options

KeysOf(records, name) == [i \in DOMAIN records |-> ObjKey(records[i], name)]

\* The keys of a sequence in the order in which they first occur.
RECURSIVE FirstSeen(_, _)
FirstSeen(keys, seen) ==
    IF keys = <<>> THEN <<>>
    ELSE IF Head(keys) \in seen THEN FirstSeen(Tail(keys), seen)
    ELSE <<Head(keys)>> \o FirstSeen(Tail(keys), seen \cup {Head(keys)})

\* a is b with some of its elements left out.
RECURSIVE IsSubSeq(_, _)
IsSubSeq(a, b) ==
    IF a = <<>> THEN TRUE
    ELSE IF b = <<>> THEN FALSE
    ELSE IF Head(a) = Head(b) THEN IsSubSeq(Tail(a), Tail(b))
    ELSE IsSubSeq(a, Tail(b))

\* C21: in every section of the reduced view other than systems no two
\* records have the same key, and the keys of the kept records come in the
\* order in which they first occur in that section of the original document.
C21_FirstSeenKeyOrder ==
    \A name \in DOMAIN local_config.v \ {"systems"} :
        LET kept == KeysOf(local_config.v[name].v, name)
        IN  /\ \A i, j \in DOMAIN kept : kept[i] = kept[j] => i = j
            /\ HasKey(given, name)
            /\ IsSubSeq(kept, FirstSeen(KeysOf(given.v[name].v, name), {}))

\* C21 witness: the environments section of the document names "gnu" in its
\* first three records and its fifth and "intel" in its fourth; after
\* select_subconfig("sysA:partX") the view holds one "gnu" and then "intel".
C21_Witness ==
    /\ last.op = "select_subconfig"
    /\ last.target = "sysA:partX"
    /\ last.out.status = "return"
    /\ KeysOf(given.v["environments"].v, "environments")
           = <<"gnu", "gnu", "gnu", "intel", "gnu">>
    /\ HasKey(local_config, "environments")
    /\ KeysOf(local_config.v["environments"].v, "environments")
           = <<"gnu", "intel">>

\* The positions of the records of a section that have the key and list the
\* pattern among their target systems.
Listing(records, name, key, pattern) ==
    {i \in DOMAIN records :
        /\ ObjKey(records[i], name) = key
        /\ pattern \in {t.v : t \in Range(TargetSystems(records[i], name).v)}}

\* The patterns the records with the key list.
PatternsOf(records, name, key) ==
    UNION { {t.v : t \in Range(TargetSystems(records[i], name).v)} :
                i \in {j \in DOMAIN records : ObjKey(records[j], name) = key} }

\* pattern is the most specific pattern of the key that applies to fullname.
MostSpecific(records, name, key, fullname, pattern) ==
    /\ pattern \in PatternsOf(records, name, key)
    /\ ScopeMatches(pattern, fullname)
    /\ \A q \in PatternsOf(records, name, key) :
           ScopeMatches(q, fullname) => Specificity(q) <= Specificity(pattern)

\* The last of a nonempty set of positions.
LastOf(positions) == CHOOSE i \in positions : \A j \in positions : j <= i

\* C22: when two records of the environments section have the same key and
\* list the same pattern, and that pattern is the most specific one of the
\* key that applies to the target, a select_subconfig that reduces the
\* document and succeeds keeps for the key the last record listing the
\* pattern.
C22_LaterRecordOverwrites ==
    [][ (/\ last'.op = "select_subconfig"
         /\ ~AlreadySelected(local_system, last'.target)
         /\ last'.out.status = "return")
        => LET records == given.v["environments"].v
               view    == local_config'.v["environments"].v
           IN  \A key \in Range(KeysOf(records, "environments")) :
                 \A pattern \in PatternsOf(records, "environments", key) :
                   (/\ Cardinality(Listing(records, "environments", key,
                                           pattern)) >= 2
                    /\ MostSpecific(records, "environments", key,
                                    last'.target, pattern))
                   => SelectSeq(view,
                          LAMBDA r : ObjKey(r, "environments") = key)
                      = << records[LastOf(Listing(records, "environments",
                                                  key, pattern))] >> ]_vars

\* C22 witness: "gnu" is defined for "*" by the first record and again by a
\* later one; select_subconfig("sysB") succeeded and the view holds the
\* later record.
C22_Witness ==
    /\ last.op = "select_subconfig"
    /\ last.target = "sysB"
    /\ last.out.status = "return"
    /\ local_system = PyStr("sysB")
    /\ given.v["environments"].v[1] = Environment("gnu", <<"*">>, "gcc")
    /\ RecordsNamed(local_config, "environments", "gnu")
           = <<Environment("gnu", <<"sysA", "*">>, "gcc-late")>>

\* C24: whenever the active target is a target T, whatever select_subconfig
\* calls returned or raised before, the view that get reads is the reduction
\* of the original document for T.
C24_ViewIsReductionForTarget ==
    local_system # PyNone
    => PickConfig(site_config, local_config)
           = FreshView(given, schema_required, local_system.v)

\* C25: while an option P with positional or '@' segments is pinned to v by
\* add_sticky_option(P, v), get(P, d) returns v.
C25_StickyKeyedByStrippedPath ==
    (/\ last.op = "get"
     /\ \A i \in DOMAIN last.path : last.path[i] # ""
     /\ StrippedOpt(last.path) # last.path
     /\ last.path \in DOMAIN pinned)
    => last.out = Returned(pinned[last.path])

\* How select_subconfig(fullname) ends on a SiteConfig just constructed from
\* doc.
FreshOutcome(doc, required, fullname) ==
    SelectResult(doc, EmptyDict, PyNone, required, fullname).out

\* fullname is S:P with P the name of a partition of the first system
\* record named S.
NamesPartitionOfSystem(doc, fullname) ==
    /\ PartName(fullname) # PyNone
    /\ SystemsOf(doc, fullname) # <<>>
    /\ PartitionsOf(doc, fullname) # <<>>

\* C26: on a SiteConfig just constructed, select_subconfig("S:P") returns
\* for a partition P of system S whenever select_subconfig("S") returns on a
\* SiteConfig just constructed from the same document.
C26_PartitionOfSelectableSystem ==
    [][ (/\ last'.op = "select_subconfig"
         /\ local_system = PyNone
         /\ local_config = EmptyDict
         /\ NamesPartitionOfSystem(given, last'.target)
         /\ FreshOutcome(given, schema_required,
                         SystemName(last'.target)).status = "return")
        => last'.out.status = "return" ]_vars

\* C26 witness: select_subconfig("sysA:partY") returned with the view of a
\* first call, on a document whose only "gnu" record is for "sysA" and on
\* which select_subconfig("sysA") returns.
C26_Witness ==
    /\ last.op = "select_subconfig"
    /\ last.target = "sysA:partY"
    /\ last.out.status = "return"
    /\ local_config = FreshView(given, schema_required, "sysA:partY")
    /\ RecordsNamed(given, "environments", "gnu")
           = <<Environment("gnu", <<"sysA">>, "gcc-a")>>
    /\ FreshOutcome(given, schema_required, "sysA").status = "return"

\* C27: a select_subconfig whose target has no partition component and
\* names a system of the document never raises the error of a
\* system/partition combination that is not found.
C27_NoCombinationErrorForSystemTarget ==
    (/\ last.op = "select_subconfig"
     /\ PartName(last.target) = PyNone
     /\ SystemsOf(given, last.target) # <<>>)
    => ~(/\ last.out.status = "raise"
         /\ last.out.what = "system/partition combination not found")

\* C23: an option whose command-line value is CONST_DEFAULT, its flag given
\* without an argument, resolves to CONST_DEFAULT, whether its environment
\* variable is set or not.
C23_PlaceholderVerbatim ==
    (/\ parser_last.op = "__getattr__"
     /\ LastCli = CONST_DEFAULT)
    => parser_last.out = Returned(CONST_DEFAULT)

\* C23, as the code has it: an option whose command-line value is
\* CONST_DEFAULT resolves to the converted text of its environment variable
\* when that variable is set, and to CONST_DEFAULT when it is unset or the
\* option has none.
C23_PlaceholderYieldsToEnv ==
    (/\ parser_last.op = "__getattr__"
     /\ LastCli = CONST_DEFAULT)
    => IF /\ LastOption.envvar # <<>>
          /\ EnvName(LastOption.envvar) \in DOMAIN environ
       THEN parser_last.out
                = FromEnv(LastOption, environ[EnvName(LastOption.envvar)])
       ELSE parser_last.out = Returned(CONST_DEFAULT)

\* C23 witness: q was given without an argument, RFM_Q is set to "env" and q
\* resolved to "env".
C23_Witness ==
    /\ parser_last.op = "__getattr__"
    /\ parser_last.name = "q"
    /\ LastCli = CONST_DEFAULT
    /\ "RFM_Q" \in DOMAIN environ
    /\ parser_last.out = Returned(PyStr("env"))

\* C28: a parse_args call, returning or raising, with suppress_required
\* true or false, leaves every group's required flag as it was before the
\* call; with suppress_required false no flag is changed during the call
\* either.
C28_RequiredFlagsRestored ==
    [][ parser_last'.op = "parse_args"
        => /\ groups' = groups
           /\ Enter(groups, FALSE) = [groups |-> groups, changed_grp |-> {}]
      ]_vars

\* C28 witness: parse_args returned although the command line gave no option
\* of the required group, which only a call with suppress_required true
\* does, and the group is required after the call.
C28_Witness ==
    /\ parser_last.op = "parse_args"
    /\ parser_last.out.status = "return"
    /\ Len(groups) = 3
    /\ IsRequired(groups[1])
    /\ \A name \in groups[1].options : parser_last.options[name] = PyNone
    /\ ~IsRequired(groups[2])
    /\ ~IsRequired(groups[3])

\* The hooks of one kind registered for a function and not disabled, in the
\* order of the registry, as the events their running leaves.
EnabledEvents(kind, func) ==
    LET phase == kind \o "_" \o func
        registered == IF phase \in DOMAIN hooks THEN hooks[phase] ELSE <<>>
        enabled == SelectSeq(registered, LAMBDA h : h \notin disabled_hooks)
    IN  [i \in 1..Len(enabled) |-> Ran(kind, enabled[i])]

\* Everything a call of a wrapped function runs when nothing raises.
FullRun(func) ==
    EnabledEvents("pre", func) \o <<Ran("func", func)>>
        \o EnabledEvents("post", func)

\* C29: a call of a wrapped function runs the enabled pre hooks in the order
\* of the registry, then the function, then the enabled post hooks in the
\* order of the registry.  At every point of the call what has run is the
\* beginning of that sequence, so no post hook runs before the function
\* returned; a call that returned has run all of it; and no hook whose name
\* is in _disabled_hooks is ever run.
C29_HooksAroundFunction ==
    hook_call.func # "" =>
        LET full == FullRun(hook_call.func)
            ran == hook_call.ran
        IN  /\ Len(ran) <= Len(full)
            /\ ran = SubSeq(full, 1, Len(ran))
            /\ (hook_call.pc = "idle" /\ hook_call.out.status = "return")
                   => ran = full
            /\ hook_call.pc = "post"
                   => \E i \in 1..Len(ran) : ran[i].kind = "func"
            /\ \A i \in 1..Len(ran) :
                   ran[i].kind # "func" => ran[i].name \notin disabled_hooks

\* A call of setup returned with h2 disabled: h1 ran before the function, h3
\* and then h1 after it, and h2, registered before setup, did not run.
C29_Witness ==
    /\ hook_call.pc = "idle"
    /\ hook_call.out.status = "return"
    /\ disabled_hooks = {"h2"}
    /\ hook_call.ran = << Ran("pre", "h1"), Ran("func", "setup"),
                          Ran("post", "h3"), Ran("post", "h1") >>

\* The partitions a call of detect_topology found without configured
\* processor information and with a processor.json that is not JSON.
InvalidProcessorFile(i) ==
    /\ topo_last.parts[i].processor = NoInfo
    /\ topo_last.files[i].processor.kind = "notjson"

\* The partitions a call of detect_topology found without configured devices
\* and with a devices.json that is not JSON.
InvalidDevicesFile(i) ==
    /\ topo_last.parts[i].devices = <<>>
    /\ topo_last.files[i].devices.kind = "notjson"

\* Every file the call found is missing, valid or not JSON.
OnlyInvalidJson ==
    \A i \in 1..Len(topo_last.files) :
        /\ topo_last.files[i].processor.kind \in {"absent", "good", "notjson"}
        /\ topo_last.files[i].devices.kind \in {"absent", "good", "notjson"}

\* C30: detect_topology never raises because a processor.json or devices.json
\* exists but is not JSON: no call ends with the JSON decoding error, and when
\* the files are missing, valid or not JSON the call fails only in saving what
\* it detected or in remote detection.  After a call that returned, a fully local partition
\* whose processor.json was not JSON has the processor information of local
\* detection, cpuinfo(), and a partition whose devices.json was not JSON
\* has no devices.
C30_InvalidJsonIgnored ==
    topo_last.op = "detect_topology" =>
        /\ topo_last.out.exc # "JSONDecodeError"
        /\ (OnlyInvalidJson /\ topo_last.out.status = "raise")
               => topo_last.out.what \in
                      {"could not make topology directory",
                       "could not save topology file",
                       "failed to retrieve remote processor info"}
        /\ topo_last.out.status = "return" =>
               \A i \in 1..Len(topo_parts) :
                   /\ (InvalidProcessorFile(i) /\ topo_parts[i].local)
                          => topo_parts[i].processor = topo_last.cpuinfo
                   /\ InvalidDevicesFile(i) => topo_parts[i].devices = <<>>

\* A call with warnings treated as errors returned; it found the first
\* partition fully local, without configured topology and with both files not
\* JSON, and left it with the processor information of cpuinfo(), saved to
\* processor.json, and without devices.
C30_Witness ==
    /\ topo_last.op = "detect_topology"
    /\ topo_last.out.status = "return"
    /\ topo_options.treat_warnings
    /\ InvalidProcessorFile(1)
    /\ InvalidDevicesFile(1)
    /\ topo_parts[1].local
    /\ topo_last.cpuinfo = "cpuinfo"
    /\ topo_parts[1].processor = "cpuinfo"
    /\ topo_parts[1].devices = <<>>
    /\ topo_files[1].processor = GoodFile("cpuinfo")
    /\ topo_files[1].devices.kind = "notjson"

=============================================================================
